---------------------------- MODULE Spec2Model ----------------------------
(***************************************************************************)
(* Particle Field Simulator (AntiGravityCanvas) of the landing page.       *)
(*                                                                         *)
(* The component's refs are the state, every handler (mount effects,       *)
(* resize, pointer move / leave, the animation frame, unmount) is one      *)
(* atomic action: the host runs each of them to completion on one thread.  *)
(*                                                                         *)
(* Numbers.  Lengths and velocities are fixed-point integers in units of   *)
(* 1/Scale pixel; times are milliseconds; scroll offsets are whole pixels. *)
(* scrollProgress and the colour interpolation are exact rationals         *)
(* (numerator over the viewport height).  The particle counts reproduce    *)
(* the IEEE-754 double product the code evaluates.                         *)
(***************************************************************************)
EXTENDS Integers, Sequences, FiniteSets, TLC

(* ------------------------------ bounds -------------------------------- *)

\* frame callbacks executed in one behaviour
MaxFrames == 2
\* mounts, window resizes, scroll and pointer events in one behaviour
MaxEvents == 3
\* frames of one behaviour of the damping specification
MaxDampingFrames == 16

(* ------------------------- input domains ------------------------------ *)

\* viewports [w, h, dpr]: the container is `fixed inset-0`, so its bounding
\* box is w x h CSS pixels; dpr is window.devicePixelRatio
Viewports == { [ w |-> 200, h |-> 100, dpr |-> 1 ],
               [ w |-> 150, h |-> 200, dpr |-> 2 ],
               [ w |-> 200, h |-> 0, dpr |-> 1 ] }
\* what the host gives the component: whether getContext('2d') returns a
\* context and whether the elements of scrollRef and fpsRef are rendered
HostConfigs == { [ ctx |-> TRUE, scroll |-> TRUE, fps |-> TRUE ],
                 [ ctx |-> FALSE, scroll |-> TRUE, fps |-> TRUE ],
                 [ ctx |-> TRUE, scroll |-> FALSE, fps |-> TRUE ],
                 [ ctx |-> TRUE, scroll |-> TRUE, fps |-> FALSE ] }
\* scrollTop values of the scroll container (negative: elastic overscroll)
ScrollOffsets == { -20, 0, 100, 250 }
\* milliseconds between two frame timestamps
TimeSteps == { 16, 1000 }
\* pointer positions (clientX, clientY) of mousemove events
PointerPositions == { << 50, 50 >> }

(* ------------------------ configuration constants --------------------- *)

\* fixed-point units per pixel
Scale == 100
\* PARTICLE_DENSITY = 0.00015 = 3/20000, BG_PARTICLE_DENSITY = 0.00005 = 1/20000
DENSITY_DEN == 20000
PARTICLE_DENSITY_NUM == 3
BG_PARTICLE_DENSITY_NUM == 1
MOUSE_RADIUS == 250
\* RETURN_SPEED = 0.05 = 1/20
RETURN_SPEED_DEN == 20
\* DAMPING = 0.92 = 92/100
DAMPING_NUM == 92
DAMPING_DEN == 100
\* REPULSION_STRENGTH * 5 = 1.2 * 5 = 6
REPULSION_NUM == 6

(* ------------------------------ arithmetic ---------------------------- *)

Abs(a) == IF a < 0 THEN -a ELSE a

\* division of the fixed-point model: quotient truncated toward zero
TDiv(a, b) == IF a >= 0 THEN a \div b ELSE -((-a) \div b)

RECURSIVE Pow2Floor(_)
Pow2Floor(n) == IF n < 2 THEN 1 ELSE 2 * Pow2Floor(n \div 2)

RECURSIVE SqrtSearch(_, _, _)
SqrtSearch(n, lo, hi) ==
    IF lo >= hi THEN lo
    ELSE LET mid == (lo + hi + 1) \div 2
         IN IF mid * mid <= n THEN SqrtSearch(n, mid, hi)
                              ELSE SqrtSearch(n, lo, mid - 1)

\* Math.sqrt on the fixed-point grid: floor of the square root
Sqrt(n) == SqrtSearch(n, 0, 46340)

(* --------------------- Math.floor(width * height * d) ------------------ *)

\* Math.floor(width * height * PARTICLE_DENSITY) in double precision.
\* The double nearest 0.00015 is 3/20000 - 303/(20000 * 2^60).  When the
\* area is not a multiple of 20000 the product is far from an integer and
\* the floor is floor(3*area/20000).  When area = 20000*k the exact product
\* is 3k - 303k/2^60; it rounds to the double 3k only if 303k/2^60 is less
\* than half the spacing 2^(p-52) of the doubles below 3k (2^p <= 3k),
\* i.e. 303k < 128 * 2^p; otherwise it rounds below 3k and the floor is
\* 3k - 1  (200 x 100 gives 2, 1000 x 1000 gives 150).
FloorParticleDensity(area) ==
    LET k == area \div DENSITY_DEN
    IN IF area % DENSITY_DEN = 0 /\ k > 0
          /\ 303 * k > 128 * Pow2Floor(PARTICLE_DENSITY_NUM * k)
       THEN PARTICLE_DENSITY_NUM * k - 1
       ELSE (PARTICLE_DENSITY_NUM * area) \div DENSITY_DEN

\* Math.floor(width * height * BG_PARTICLE_DENSITY) in double precision.
\* The double nearest 0.00005 is 1/20000 + 221/(20000 * 2^62): the product
\* is never below the exact one, so the floor is floor(area/20000).
FloorBgDensity(area) == (BG_PARTICLE_DENSITY_NUM * area) \div DENSITY_DEN

(* ------------------------------ Math.random ---------------------------- *)

\* Math.random() is a stream of numerators over RandDen, in [0, 1); an
\* initialization draws its values in program order from one stream.
RandDen == 256
RandStreams ==
    << << 64, 128,   0,  10,  32,  66, 128,   0, 250, 200,   0,  10,  96 >>,
       << 192, 128, 255, 240, 100, 192, 128, 255,   0,   7, 130,   0, 200 >> >>
RandSeeds == 1..Len(RandStreams)

rand(seed, k) == RandStreams[seed][(k % Len(RandStreams[seed])) + 1]

\* randomRange(min, max) = Math.random() * (max - min) + min, fixed-point;
\* min and max are given in units of 1/den
randomRange(r, min, max, den) ==
    (r * (max - min) * Scale) \div (RandDen * den) + (min * Scale) \div den

(* ------------------------------- state -------------------------------- *)

VARIABLES
    win,             \* environment: viewport [w, h, dpr]
    scrollTop,       \* environment: scroll offset of the scroll container
    now,             \* environment: timestamp of the latest frame callback
    phase,           \* "unmounted" | "mounted" | "detached"
    canvasRef,       \* canvasRef.current is an element
    containerRef,    \* containerRef.current is an element
    ctxOk,           \* canvas.getContext('2d') returns a context
    scrollRefOk,     \* scrollRef.current is an element
    fpsRefOk,        \* fpsRef.current is an element
    resizeListener,  \* handleResize is registered on window
    mouseListeners,  \* the pointer handlers are registered on window
    canvas,          \* the canvas element: backing size, style size, scale
    particles,       \* particlesRef.current
    bgParticles,     \* backgroundParticlesRef.current
    mouse,           \* mouseRef.current
    frameIdRef,      \* frameIdRef.current
    rafPending,      \* ids of the requested, not yet run or cancelled, callbacks
    nextRafId,       \* id the next requestAnimationFrame returns
    lastTimeRef,     \* lastTimeRef.current
    lastFpsTimeRef,  \* lastFpsTimeRef.current
    frameCountRef,   \* frameCountRef.current
    lastScrollTopRef,\* lastScrollTopRef.current
    fpsText,         \* number shown by the frame-rate element, -1 for "--"
    entityCount,     \* host state written by setEntityCount
    lastFrame,       \* locals of the latest frame callback and what it did
    hist,            \* history: initParticles calls and their arguments
    steps,           \* history: number of events of each kind so far
    isMobile,        \* mobile-aware page: the state of useIsMobile
    hostRendered     \* mobile-aware page: rendered, checkMobile registered

envVars == << win, scrollTop, now >>
refVars == << canvasRef, containerRef, ctxOk, scrollRefOk, fpsRefOk >>
listenerVars == << resizeListener, mouseListeners >>
rafVars == << frameIdRef, rafPending, nextRafId >>
fpsVars == << lastTimeRef, lastFpsTimeRef, frameCountRef, fpsText >>
listVars == << particles, bgParticles >>
hostVars == << isMobile, hostRendered >>

vars == << win, scrollTop, now, phase, canvasRef, containerRef, ctxOk,
           scrollRefOk, fpsRefOk, resizeListener, mouseListeners, canvas,
           particles, bgParticles, mouse, frameIdRef, rafPending, nextRafId,
           lastTimeRef, lastFpsTimeRef, frameCountRef, lastScrollTopRef,
           fpsText, entityCount, lastFrame, hist, steps, isMobile,
           hostRendered >>

(* ------------------------- particle generation ------------------------ *)

\* the object pushed by the i-th iteration (i = 0, 1, ...) of the
\* foreground loop of initParticles; five draws per particle.  nan tells
\* which numbers of the particle are NaN: 0 none, 1 the velocity, 2 the
\* velocity and the position (their fields then hold 0).
NewParticle(seed, i, width, height) ==
    LET k == 5 * i
        x == (rand(seed, k) * width * Scale) \div RandDen
        y == (rand(seed, k + 1) * height * Scale) \div RandDen
    IN [ x |-> x, y |-> y, originX |-> x, originY |-> y, vx |-> 0, vy |-> 0,
         nan |-> 0,
         size |-> randomRange(rand(seed, k + 2), 2, 5, 2),
         color |-> IF rand(seed, k + 3) * 10 > 9 * RandDen
                   THEN "#4285F4" ELSE "#ffffff",
         angle |-> rand(seed, k + 4) ]

\* a loop that runs once too often (`i <= particleCount`)
NewParticles_OffByOne(seed, particleCount, width, height) ==
    [ i \in 1..(particleCount + 1) |-> NewParticle(seed, i - 1, width, height) ]

\* a resize that keeps the particles it already has and only generates
\* the missing ones
NewParticles_KeepsOld(seed, particleCount, width, height) ==
    [ i \in 1..particleCount |->
        IF i <= Len(particles.list) THEN particles.list[i]
        ELSE NewParticle(seed, i - 1, width, height) ]

\* the foreground loop: particleCount pushes
NewParticles(seed, particleCount, width, height) ==
    [ i \in 1..particleCount |-> NewParticle(seed, i - 1, width, height) ]

\* the object pushed by the i-th iteration of the background loop; seven
\* draws per particle, after the k0 draws of the foreground loop
NewBgParticle(seed, k0, i, width, height) ==
    LET k == k0 + 7 * i
    IN [ x |-> (rand(seed, k) * width * Scale) \div RandDen,
         y |-> (rand(seed, k + 1) * height * Scale) \div RandDen,
         vx |-> TDiv((2 * rand(seed, k + 2) - RandDen) * Scale, 10 * RandDen),
         vy |-> TDiv((2 * rand(seed, k + 3) - RandDen) * Scale, 10 * RandDen),
         size |-> randomRange(rand(seed, k + 4), 1, 3, 2),
         alpha |-> randomRange(rand(seed, k + 5), 1, 4, 10),
         phase |-> rand(seed, k + 6) ]

\* the background loop: bgCount pushes
NewBgParticles(seed, k0, bgCount, width, height) ==
    [ i \in 1..bgCount |-> NewBgParticle(seed, k0, i - 1, width, height) ]

\* an initialization that reports the foreground count only
initParticles_ReportsForeground(seed, width, height) ==
    LET particleCount == FloorParticleDensity(width * height)
        bgCount == FloorBgDensity(width * height)
        call == hist.initCalls + 1
    IN /\ particles' = [ gen |-> call,
                         list |-> NewParticles(seed, particleCount, width, height) ]
       /\ bgParticles' = [ gen |-> call,
                           list |-> NewBgParticles(seed, 5 * particleCount,
                                                   bgCount, width, height) ]
       /\ entityCount' = particleCount
       /\ hist' = [ hist EXCEPT !.initCalls = call,
                                !.reportCalls = @ + 1,
                                !.initW = width, !.initH = height ]

\* an initialization that replaces the foreground list and leaves the
\* background list of the previous initialization in place
initParticles_ForegroundOnly(seed, width, height) ==
    LET particleCount == FloorParticleDensity(width * height)
        bgCount == FloorBgDensity(width * height)
        call == hist.initCalls + 1
    IN /\ particles' = [ gen |-> call,
                         list |-> NewParticles(seed, particleCount, width, height) ]
       /\ bgParticles' = bgParticles
       /\ entityCount' = particleCount + bgCount
       /\ hist' = [ hist EXCEPT !.initCalls = call,
                                !.reportCalls = @ + 1,
                                !.initW = width, !.initH = height ]

\* initParticles(width, height): both lists are replaced and the total is
\* reported through setEntityCount
initParticles(seed, width, height) ==
    LET particleCount == FloorParticleDensity(width * height)
        bgCount == FloorBgDensity(width * height)
        call == hist.initCalls + 1
    IN /\ particles' = [ gen |-> call,
                         list |-> NewParticles(seed, particleCount, width, height) ]
       /\ bgParticles' = [ gen |-> call,
                           list |-> NewBgParticles(seed, 5 * particleCount,
                                                   bgCount, width, height) ]
       /\ entityCount' = particleCount + bgCount
       /\ hist' = [ hist EXCEPT !.initCalls = call,
                                !.reportCalls = @ + 1,
                                !.initW = width, !.initH = height ]

(* --------------------------- initial state ---------------------------- *)

\* useRef initial values of a fresh component instance
FreshMouse == [ x |-> -1000, y |-> -1000, isActive |-> FALSE ]
FreshList == [ gen |-> 0, list |-> << >> ]
\* a canvas element before any size is assigned: 300 x 150, no style size
FreshCanvas == [ width |-> 300, height |-> 150, styleW |-> -1, styleH |-> -1,
                 scale |-> 1 ]
\* no frame callback has run in this component instance
NoFrame == [ ran |-> FALSE, armed |-> FALSE, sampled |-> FALSE,
             gens |-> << 0, 0 >>, lens |-> << 0, 0 >>,
             scrollDelta |-> 0, scrollForce |-> 0,
             progressNaN |-> FALSE, progressNum |-> 0, progressDen |-> 1,
             currentScroll |-> 0,
             currentColor |-> << 66, 133, 244 >>, sumDelta |-> 0,
             repulsion |-> << >>, mouse |-> FreshMouse, log |-> << >>,
             times |-> << >>, resets |-> << >>, writes |-> << >> ]

Init ==
    /\ win \in Viewports
    /\ scrollTop = 0
    /\ now = 0
    /\ phase = "unmounted"
    /\ canvasRef = FALSE /\ containerRef = FALSE /\ ctxOk = FALSE
    /\ scrollRefOk = FALSE /\ fpsRefOk = FALSE
    /\ resizeListener = FALSE /\ mouseListeners = FALSE
    /\ canvas = FreshCanvas
    /\ particles = FreshList /\ bgParticles = FreshList
    /\ mouse = FreshMouse
    /\ frameIdRef = 0 /\ rafPending = {} /\ nextRafId = 1
    /\ lastTimeRef = 0 /\ lastFpsTimeRef = 0 /\ frameCountRef = 0
    /\ lastScrollTopRef = 0
    /\ fpsText = -1
    /\ entityCount = 0
    /\ lastFrame = NoFrame
    /\ hist = [ initCalls |-> 0, reportCalls |-> 0, initW |-> 0, initH |-> 0 ]
    /\ steps = [ frames |-> 0, events |-> 0 ]
    /\ isMobile = FALSE /\ hostRendered = FALSE

(* ------------------------------ resize -------------------------------- *)

\* window.devicePixelRatio || 1
EffectiveDpr == IF win'.dpr = 0 THEN 1 ELSE win'.dpr

\* a handleResize without its guard on the two refs
handleResize_NoGuard(seed) ==
    LET width == win'.w
        height == win'.h
    IN /\ canvas' = [ width |-> width * EffectiveDpr,
                      height |-> height * EffectiveDpr,
                      styleW |-> width, styleH |-> height,
                      scale |-> IF ctxOk' THEN EffectiveDpr ELSE 1 ]
       /\ initParticles(seed, width, height)

\* handleResize, run with the refs as they are after this step
handleResize(seed) ==
    IF containerRef' /\ canvasRef'
    THEN LET width == win'.w
             height == win'.h
         IN /\ canvas' = [ width |-> width * EffectiveDpr,
                           height |-> height * EffectiveDpr,
                           styleW |-> width, styleH |-> height,
                           scale |-> IF ctxOk' THEN EffectiveDpr ELSE 1 ]
            /\ initParticles(seed, width, height)
    ELSE UNCHANGED << canvas, particles, bgParticles, entityCount, hist >>

\* a resize whose listener also forgets the scroll offset it had stored
ResizeEvent_ResetsScroll(v, seed) ==
    /\ steps.events < MaxEvents
    /\ steps' = [ steps EXCEPT !.events = @ + 1 ]
    /\ win' = v
    /\ lastScrollTopRef' = IF resizeListener THEN 0 ELSE lastScrollTopRef
    /\ UNCHANGED << scrollTop, now, phase, refVars, listenerVars, mouse,
                    rafVars, fpsVars, lastFrame >>
    /\ IF resizeListener
       THEN handleResize(seed)
       ELSE UNCHANGED << canvas, particles, bgParticles, entityCount, hist >>

\* the window fires `resize`: the viewport and the pixel ratio change and
\* the registered listener of the simulator runs
ResizeEvent(v, seed) ==
    /\ steps.events < MaxEvents
    /\ steps' = [ steps EXCEPT !.events = @ + 1 ]
    /\ win' = v
    /\ UNCHANGED << scrollTop, now, phase, refVars, listenerVars, mouse,
                    rafVars, fpsVars, lastScrollTopRef, lastFrame >>
    /\ IF resizeListener
       THEN handleResize(seed)
       ELSE UNCHANGED << canvas, particles, bgParticles, entityCount, hist >>

\* a resize of the page whose host always renders the simulator
WindowResize(v, seed) == ResizeEvent(v, seed) /\ UNCHANGED hostVars

(* ------------------------- mount and unmount -------------------------- *)

\* First render of the component and its three effects, in source order:
\* the resize effect (listener + handleResize()), the pointer effect, the
\* start effect (requestAnimationFrame(animate)).
MountCanvas(host, seed) ==
    /\ phase = "unmounted"
    /\ steps.events < MaxEvents
    /\ steps' = [ steps EXCEPT !.events = @ + 1 ]
    /\ phase' = "mounted"
    /\ UNCHANGED envVars
    /\ canvasRef' = TRUE /\ containerRef' = TRUE
    /\ ctxOk' = host.ctx /\ scrollRefOk' = host.scroll /\ fpsRefOk' = host.fps
    /\ mouse' = FreshMouse
    /\ lastTimeRef' = 0 /\ lastFpsTimeRef' = 0 /\ frameCountRef' = 0
    /\ lastScrollTopRef' = 0
    /\ fpsText' = -1
    /\ lastFrame' = NoFrame
    /\ resizeListener' = TRUE
    /\ handleResize(seed)
    /\ mouseListeners' = TRUE
    /\ frameIdRef' = nextRafId
    /\ rafPending' = rafPending \cup { nextRafId }
    /\ nextRafId' = nextRafId + 1

\* the mount by the page whose host always renders the simulator
Mount(host, seed) == MountCanvas(host, seed) /\ UNCHANGED hostVars

\* Unmount, commit phase: the elements are removed and the refs cleared;
\* the effect cleanups have not run yet.
DetachRefs ==
    /\ phase = "mounted"
    /\ phase' = "detached"
    /\ canvasRef' = FALSE /\ containerRef' = FALSE
    /\ scrollRefOk' = FALSE /\ fpsRefOk' = FALSE
    /\ UNCHANGED hostVars
    /\ UNCHANGED << envVars, ctxOk, listenerVars, canvas, listVars, mouse,
                    rafVars, fpsVars, lastScrollTopRef, entityCount,
                    lastFrame, hist, steps >>

\* a cleanup that removes the listeners but does not cancel the frame
Cleanup_NoCancel ==
    /\ phase = "detached"
    /\ phase' = "unmounted"
    /\ resizeListener' = FALSE /\ mouseListeners' = FALSE
    /\ rafPending' = rafPending
    /\ ctxOk' = FALSE
    /\ canvas' = FreshCanvas
    /\ particles' = FreshList /\ bgParticles' = FreshList
    /\ mouse' = FreshMouse
    /\ frameIdRef' = 0
    /\ lastTimeRef' = 0 /\ lastFpsTimeRef' = 0 /\ frameCountRef' = 0
    /\ lastScrollTopRef' = 0
    /\ fpsText' = -1
    /\ lastFrame' = NoFrame
    /\ UNCHANGED hostVars
    /\ UNCHANGED << envVars, canvasRef, containerRef, scrollRefOk, fpsRefOk,
                    nextRafId, entityCount, hist, steps >>

\* Unmount, effect cleanups: the listeners are removed and
\* cancelAnimationFrame(frameIdRef.current) is called.  Nothing refers to
\* the instance afterwards: its refs and its elements are dropped (they
\* take the values of a fresh instance).
Cleanup ==
    /\ phase = "detached"
    /\ phase' = "unmounted"
    /\ resizeListener' = FALSE /\ mouseListeners' = FALSE
    /\ rafPending' = rafPending \ { frameIdRef }
    /\ ctxOk' = FALSE
    /\ canvas' = FreshCanvas
    /\ particles' = FreshList /\ bgParticles' = FreshList
    /\ mouse' = FreshMouse
    /\ frameIdRef' = 0
    /\ lastTimeRef' = 0 /\ lastFpsTimeRef' = 0 /\ frameCountRef' = 0
    /\ lastScrollTopRef' = 0
    /\ fpsText' = -1
    /\ lastFrame' = NoFrame
    /\ UNCHANGED hostVars
    /\ UNCHANGED << envVars, canvasRef, containerRef, scrollRefOk, fpsRefOk,
                    nextRafId, entityCount, hist, steps >>

(* --------------------------- pointer events --------------------------- *)

\* a move handler that pushes the particles itself
handleGlobalMouseMove_PushesParticles(pos) ==
    /\ mouseListeners
    /\ steps.events < MaxEvents
    /\ steps' = [ steps EXCEPT !.events = @ + 1 ]
    /\ mouse' = [ x |-> pos[1], y |-> pos[2], isActive |-> TRUE ]
    /\ particles' = [ particles EXCEPT !.list =
                        [ i \in 1..Len(particles.list) |->
                            [ particles.list[i] EXCEPT
                                !.vx = @ + Scale
                                         * (IF particles.list[i].x
                                               >= pos[1] * Scale
                                            THEN 1 ELSE -1) ] ] ]
    /\ UNCHANGED hostVars
    /\ UNCHANGED << envVars, phase, refVars, listenerVars, canvas,
                    bgParticles, rafVars, fpsVars, lastScrollTopRef,
                    entityCount, lastFrame, hist >>

\* handleGlobalMouseMove: mouseRef.current is replaced
handleGlobalMouseMove(pos) ==
    /\ mouseListeners
    /\ steps.events < MaxEvents
    /\ steps' = [ steps EXCEPT !.events = @ + 1 ]
    /\ mouse' = [ x |-> pos[1], y |-> pos[2], isActive |-> TRUE ]
    /\ UNCHANGED hostVars
    /\ UNCHANGED << envVars, phase, refVars, listenerVars, canvas, listVars,
                    rafVars, fpsVars, lastScrollTopRef, entityCount,
                    lastFrame, hist >>

\* handleGlobalMouseLeave: only the flag is cleared
handleGlobalMouseLeave ==
    /\ mouseListeners
    /\ steps.events < MaxEvents
    /\ steps' = [ steps EXCEPT !.events = @ + 1 ]
    /\ mouse' = [ mouse EXCEPT !.isActive = FALSE ]
    /\ UNCHANGED hostVars
    /\ UNCHANGED << envVars, phase, refVars, listenerVars, canvas, listVars,
                    rafVars, fpsVars, lastScrollTopRef, entityCount,
                    lastFrame, hist >>

\* the user scrolls the scroll container (environment)
Scroll(offset) ==
    /\ steps.events < MaxEvents
    /\ offset # scrollTop
    /\ steps' = [ steps EXCEPT !.events = @ + 1 ]
    /\ scrollTop' = offset
    /\ UNCHANGED hostVars
    /\ UNCHANGED << win, now, phase, refVars, listenerVars, canvas,
                    listVars, mouse, rafVars, fpsVars, lastScrollTopRef,
                    entityCount, lastFrame, hist >>

(* ---------------------------- frame: colour --------------------------- *)

\* an interpolation that truncates (Math.floor) instead of rounding
lerpColor_Truncates(start, end, num, den) ==
    [ i \in 1..3 |-> (start[i] * den + (end[i] - start[i]) * num) \div den ]

\* Math.round(start[i] + (end[i] - start[i]) * factor) for i = 0, 1, 2,
\* factor = num/den; Math.round rounds halves up
lerpColor(start, end, num, den) ==
    [ i \in 1..3 |->
        (2 * (start[i] * den + (end[i] - start[i]) * num) + den) \div (2 * den) ]

\* Math.min(Math.max(currentScroll / window.innerHeight, 0), 2) as a
\* fraction num/den.  A zero height divides by zero: the quotient is
\* +Infinity (clamped to 2), -Infinity (clamped to 0) or, for 0/0, NaN,
\* which Math.max and Math.min return unchanged.
ScrollProgress(currentScroll, innerHeight) ==
    IF innerHeight = 0
    THEN [ nan |-> currentScroll = 0,
           num |-> IF currentScroll > 0 THEN 2 ELSE 0, den |-> 1 ]
    ELSE [ nan |-> FALSE,
           num |-> IF currentScroll < 0 THEN 0
                   ELSE IF currentScroll > 2 * innerHeight THEN 2 * innerHeight
                   ELSE currentScroll,
           den |-> innerHeight ]

\* the colour of the frame: `scrollProgress <= 1` is false for NaN, and
\* every channel of the interpolation by NaN is NaN (held as 0 with the
\* progressNaN flag of the frame)
CurrentColor(progress) ==
    IF progress.nan THEN << 0, 0, 0 >>
    ELSE IF progress.num <= progress.den
    THEN lerpColor(<< 66, 133, 244 >>, << 147, 51, 234 >>,
                   progress.num, progress.den)
    ELSE lerpColor(<< 147, 51, 234 >>, << 34, 211, 238 >>,
                   progress.num - progress.den, progress.den)

(* ---------------------------- frame: scroll --------------------------- *)

\* scrollDelta = currentScroll - lastScrollTopRef.current
ScrollDelta(currentScroll, last) == currentScroll - last

\* a scroll force with the sign of the scroll direction
ScrollForce_WrongSign(scrollDelta) == TDiv(scrollDelta * Scale, 20)

\* scrollForce = -scrollDelta * 0.05, in units of 1/Scale pixel per frame
ScrollForce(scrollDelta) == TDiv(-scrollDelta * Scale, 20)

(* ----------------------- frame: background particles ------------------ *)

\* a wrap that forgets the lower edge
Wrap_UpperOnly(v, max) == IF v > max THEN 0 ELSE v

\* the four wrap statements, in source order, on one coordinate
Wrap(v, max) ==
    LET a == IF v < 0 THEN max ELSE v
    IN IF a > max THEN 0 ELSE a

\* a background step that takes the whole scroll force
StepBgParticle_FullForce(p, scrollForce, canvasWidth, canvasHeight) ==
    [ p EXCEPT !.x = Wrap(p.x + p.vx, canvasWidth * Scale),
               !.y = Wrap(p.y + p.vy + scrollForce, canvasHeight * Scale) ]

\* one iteration of the background loop
StepBgParticle(p, scrollForce, canvasWidth, canvasHeight) ==
    [ p EXCEPT !.x = Wrap(p.x + p.vx, canvasWidth * Scale),
               !.y = Wrap(p.y + p.vy + TDiv(scrollForce, 10),
                          canvasHeight * Scale) ]

(* ----------------------- frame: foreground forces --------------------- *)

\* a mouse interaction that does not look at the active flag
MouseInteraction_IgnoresActive(p, m) ==
    LET dx == m.x * Scale - p.x
        dy == m.y * Scale - p.y
        radius == MOUSE_RADIUS * Scale
    IN IF ~(Abs(dx) < radius /\ Abs(dy) < radius) THEN p
       ELSE LET distance == Sqrt(dx * dx + dy * dy)
                repulsion == ((radius - distance) * REPULSION_NUM * Scale)
                             \div radius
            IN IF ~(dx * dx + dy * dy < radius * radius) THEN p
               ELSE IF distance = 0
               THEN [ p EXCEPT !.nan = 1, !.vx = 0, !.vy = 0 ]
               ELSE [ p EXCEPT !.vx = @ - TDiv(dx * repulsion, distance),
                               !.vy = @ - TDiv(dy * repulsion, distance) ]

\* 1. Mouse Interaction.  The distance is only needed below MOUSE_RADIUS,
\* so it is evaluated when both |dx| and |dy| are below it.  At distance 0
\* the direction is 0/0: both velocity components become NaN.
MouseInteraction(p, m) ==
    LET dx == m.x * Scale - p.x
        dy == m.y * Scale - p.y
        radius == MOUSE_RADIUS * Scale
    IN IF ~(m.isActive /\ Abs(dx) < radius /\ Abs(dy) < radius) THEN p
       ELSE LET distance == Sqrt(dx * dx + dy * dy)
                repulsion == ((radius - distance) * REPULSION_NUM * Scale)
                             \div radius
            IN IF ~(dx * dx + dy * dy < radius * radius) THEN p
               ELSE IF distance = 0
               THEN [ p EXCEPT !.nan = 1, !.vx = 0, !.vy = 0 ]
               ELSE [ p EXCEPT !.vx = @ - TDiv(dx * repulsion, distance),
                               !.vy = @ - TDiv(dy * repulsion, distance) ]

\* what step 1 did to the velocity of p: the change of both components, or
\* nan when they became NaN (a particle that is all NaN is left alone)
RepulsionOf(p, m) ==
    LET after == IF p.nan = 2 THEN p ELSE MouseInteraction(p, m)
    IN [ nan |-> after.nan # p.nan,
         dvx |-> after.vx - p.vx, dvy |-> after.vy - p.vy ]

\* 2. Scroll Interaction and 3. Spring Force
ScrollAndSpring(p, scrollForce) ==
    IF p.nan > 0 THEN p
    ELSE [ p EXCEPT !.vx = @ + TDiv(p.originX - p.x, RETURN_SPEED_DEN),
                    !.vy = @ + scrollForce
                             + TDiv(p.originY - p.y, RETURN_SPEED_DEN) ]

\* one iteration of the first foreground loop; a particle whose numbers
\* are all NaN stays so
ApplyForces(p, m, scrollForce) ==
    IF p.nan = 2 THEN p
    ELSE ScrollAndSpring(MouseInteraction(p, m), scrollForce)

(* --------------------- frame: collision and integration --------------- *)

\* a resolution that pushes each particle by the whole overlap
Collide_PushesWholeOverlap(ps, i, j) ==
    LET p1 == ps[i]
        p2 == ps[j]
        dx == p2.x - p1.x
        dy == p2.y - p1.y
        minDist == p1.size + p2.size
    IN IF p1.nan = 2 \/ p2.nan = 2 THEN ps
       ELSE IF ~(Abs(dx) < minDist /\ Abs(dy) < minDist) THEN ps
       ELSE LET distSq == dx * dx + dy * dy
                dist == Sqrt(distSq)
                overlap == minDist - dist
                pushX == TDiv(dx * overlap, dist)
                pushY == TDiv(dy * overlap, dist)
            IN IF ~(distSq < minDist * minDist) THEN ps
               ELSE IF ~(distSq > 1) THEN ps
               ELSE [ ps EXCEPT ![i].x = @ - pushX, ![i].y = @ - pushY,
                                ![j].x = @ + pushX, ![j].y = @ + pushY ]

\* a resolution that moves only the second particle of the pair
Collide_PushesOnlySecond(ps, i, j) ==
    LET p1 == ps[i]
        p2 == ps[j]
        dx == p2.x - p1.x
        dy == p2.y - p1.y
        minDist == p1.size + p2.size
    IN IF p1.nan = 2 \/ p2.nan = 2 THEN ps
       ELSE IF ~(Abs(dx) < minDist /\ Abs(dy) < minDist) THEN ps
       ELSE LET distSq == dx * dx + dy * dy
                dist == Sqrt(distSq)
                overlap == minDist - dist
                pushX == TDiv(dx * overlap, 2 * dist)
                pushY == TDiv(dy * overlap, 2 * dist)
            IN IF ~(distSq < minDist * minDist) THEN ps
               ELSE IF ~(distSq > 1) THEN ps
               ELSE [ ps EXCEPT ![j].x = @ + 2 * pushX,
                                ![j].y = @ + 2 * pushY ]

\* the body of the inner loop for the pair (i, j): ps with both pushed apart
Collide(ps, i, j) ==
    LET p1 == ps[i]
        p2 == ps[j]
        dx == p2.x - p1.x
        dy == p2.y - p1.y
        minDist == p1.size + p2.size
    IN IF p1.nan = 2 \/ p2.nan = 2 THEN ps
       ELSE IF ~(Abs(dx) < minDist /\ Abs(dy) < minDist) THEN ps
       ELSE LET distSq == dx * dx + dy * dy
                dist == Sqrt(distSq)
                overlap == minDist - dist
                pushX == TDiv(dx * overlap, 2 * dist)
                pushY == TDiv(dy * overlap, 2 * dist)
            IN IF ~(distSq < minDist * minDist) THEN ps
               \* dist > 0.01 pixel, i.e. more than one unit of 1/Scale
               ELSE IF ~(distSq > 1) THEN ps
               ELSE [ ps EXCEPT ![i].x = @ - pushX, ![i].y = @ - pushY,
                                ![j].x = @ + pushX, ![j].y = @ + pushY ]

\* The second foreground loop is followed through a loop state
\* [ps, log]: ps is the list as the loop has it, log the operations the
\* loop has executed so far, in program order, each with the particles it
\* read and the ones it left behind.
CheckEvent(ps, after, i, j) ==
    [ op |-> "check", i |-> i, j |-> j,
      read |-> << ps[i], ps[j] >>, wrote |-> << after[i], after[j] >> ]

IntegrateEvent(p, after, i) ==
    [ op |-> "integrate", i |-> i, j |-> i,
      read |-> << p >>, wrote |-> << after >> ]

\* an inner loop over every other particle, j = 0 .. length - 1 without i
RECURSIVE CollideOthers(_, _, _)
CollideOthers(st, i, j) ==
    IF j > Len(st.ps) THEN st
    ELSE IF j = i THEN CollideOthers(st, i, j + 1)
    ELSE LET after == Collide(st.ps, i, j)
         IN CollideOthers([ ps |-> after,
                            log |-> Append(st.log,
                                           CheckEvent(st.ps, after, i, j)) ],
                          i, j + 1)

CollideFrom_AllOthers(st, i, j) == CollideOthers(st, i, 1)

\* the inner loop: j = i + 1 .. length - 1 (indices here are 1-based)
RECURSIVE CollideFrom(_, _, _)
CollideFrom(st, i, j) ==
    IF j > Len(st.ps) THEN st
    ELSE LET after == Collide(st.ps, i, j)
         IN CollideFrom([ ps |-> after,
                          log |-> Append(st.log,
                                         CheckEvent(st.ps, after, i, j)) ],
                        i, j + 1)

\* an integration that drags the origin along with the particle
Integrate_MovesOrigin(p) ==
    IF p.nan > 0 THEN [ p EXCEPT !.nan = 2, !.x = 0, !.y = 0 ]
    ELSE LET vx == TDiv(p.vx * DAMPING_NUM, DAMPING_DEN)
             vy == TDiv(p.vy * DAMPING_NUM, DAMPING_DEN)
         IN [ p EXCEPT !.vx = vx, !.vy = vy, !.x = @ + vx, !.y = @ + vy,
                       !.originX = @ + vx, !.originY = @ + vy ]

\* a damping applied twice before the position is advanced
Integrate_DampsTwice(p) ==
    IF p.nan > 0 THEN [ p EXCEPT !.nan = 2, !.x = 0, !.y = 0 ]
    ELSE LET vx == TDiv(TDiv(p.vx * DAMPING_NUM, DAMPING_DEN) * DAMPING_NUM,
                        DAMPING_DEN)
             vy == TDiv(TDiv(p.vy * DAMPING_NUM, DAMPING_DEN) * DAMPING_NUM,
                        DAMPING_DEN)
         IN [ p EXCEPT !.vx = vx, !.vy = vy, !.x = @ + vx, !.y = @ + vy ]

\* damping and integration of particle i
Integrate(p) ==
    IF p.nan > 0 THEN [ p EXCEPT !.nan = 2, !.x = 0, !.y = 0 ]
    ELSE LET vx == TDiv(p.vx * DAMPING_NUM, DAMPING_DEN)
             vy == TDiv(p.vy * DAMPING_NUM, DAMPING_DEN)
         IN [ p EXCEPT !.vx = vx, !.vy = vy, !.x = @ + vx, !.y = @ + vy ]

\* a second loop in which every index initiates collision checks
RECURSIVE CollisionLoop_ChecksEveryIndex(_, _)
CollisionLoop_ChecksEveryIndex(st, i) ==
    IF i > Len(st.ps) THEN st
    ELSE LET collided == CollideFrom(st, i, i + 1)
             p1 == collided.ps[i]
             moved == Integrate(p1)
         IN CollisionLoop_ChecksEveryIndex(
                [ ps |-> [ collided.ps EXCEPT ![i] = moved ],
                  log |-> Append(collided.log, IntegrateEvent(p1, moved, i)) ],
                i + 1)

\* a second loop that integrates a particle before it checks its pairs
RECURSIVE CollisionLoop_IntegratesFirst(_, _)
CollisionLoop_IntegratesFirst(st, i) ==
    IF i > Len(st.ps) THEN st
    ELSE LET p1 == st.ps[i]
             moved == Integrate(p1)
             integrated == [ ps |-> [ st.ps EXCEPT ![i] = moved ],
                             log |-> Append(st.log,
                                            IntegrateEvent(p1, moved, i)) ]
         IN CollisionLoop_IntegratesFirst(
                IF i % 2 = 1 THEN CollideFrom(integrated, i, i + 1)
                ELSE integrated,
                i + 1)

\* the second foreground loop from index i on: the 0-based index i - 1 is
\* even exactly when i is odd
RECURSIVE CollisionLoop(_, _)
CollisionLoop(st, i) ==
    IF i > Len(st.ps) THEN st
    ELSE LET collided == IF i % 2 = 1 THEN CollideFrom(st, i, i + 1) ELSE st
             p1 == collided.ps[i]
             moved == Integrate(p1)
         IN CollisionLoop([ ps |-> [ collided.ps EXCEPT ![i] = moved ],
                            log |-> Append(collided.log,
                                           IntegrateEvent(p1, moved, i)) ],
                          i + 1)

(* ------------------------------- frame -------------------------------- *)

\* a request whose returned id is not stored in the frame id ref
Rearm_ForgetsId(id) ==
    /\ frameIdRef' = frameIdRef
    /\ rafPending' = (rafPending \ { id }) \cup { nextRafId }
    /\ nextRafId' = nextRafId + 1

\* requestAnimationFrame(animate) at the end of a frame that consumed `id`
Rearm(id) ==
    /\ frameIdRef' = nextRafId
    /\ rafPending' = (rafPending \ { id }) \cup { nextRafId }
    /\ nextRafId' = nextRafId + 1

\* an early return placed after the requestAnimationFrame call
AnimateReturn_Rearms(id) ==
    /\ frameIdRef' = nextRafId
    /\ rafPending' = (rafPending \ { id }) \cup { nextRafId }
    /\ nextRafId' = nextRafId + 1
    /\ lastFrame' = [ lastFrame EXCEPT !.ran = FALSE, !.armed = FALSE ]
    /\ UNCHANGED << fpsVars, lastScrollTopRef, listVars >>

\* the two early returns of animate: nothing is written, nothing requested
AnimateReturn(id) ==
    /\ rafPending' = rafPending \ { id }
    /\ lastFrame' = [ lastFrame EXCEPT !.ran = FALSE, !.armed = FALSE ]
    /\ UNCHANGED << frameIdRef, nextRafId, fpsVars, lastScrollTopRef,
                    listVars >>

\* a threshold written in seconds where the timestamps are milliseconds
SecondElapsed_InSeconds(time) == time - lastFpsTimeRef >= 1

\* `time - lastFpsTimeRef.current >= 1000`
SecondElapsed(time) == time - lastFpsTimeRef >= 1000

\* a frame that takes the offset whether or not the container is rendered
SampledDelta_NoGuard(currentScroll) ==
    ScrollDelta(currentScroll, lastScrollTopRef)

\* `let scrollDelta = 0; if (scrollRef.current) { scrollDelta = ... }`
SampledDelta(currentScroll) ==
    IF scrollRefOk THEN ScrollDelta(currentScroll, lastScrollTopRef) ELSE 0

\* the body of animate(time) past the two guards
AnimateBody(id, time) ==
    LET count == frameCountRef + 1
        second == SecondElapsed(time)
        currentScroll == scrollTop
        scrollDelta == SampledDelta(currentScroll)
        scrollProgress == IF scrollRefOk
                          THEN ScrollProgress(currentScroll, win.h)
                          ELSE [ nan |-> FALSE, num |-> 0, den |-> 1 ]
        scrollForce == ScrollForce(scrollDelta)
        forced == [ i \in 1..Len(particles.list) |->
                      ApplyForces(particles.list[i], mouse, scrollForce) ]
        loop == CollisionLoop([ ps |-> forced, log |-> << >> ], 1)
    IN /\ lastTimeRef' = time
       /\ frameCountRef' = IF second THEN 0 ELSE count
       /\ lastFpsTimeRef' = IF second THEN time ELSE lastFpsTimeRef
       /\ fpsText' = IF second /\ fpsRefOk THEN count ELSE fpsText
       /\ lastScrollTopRef' = IF scrollRefOk THEN currentScroll
                              ELSE lastScrollTopRef
       /\ bgParticles' =
            [ bgParticles EXCEPT !.list =
                [ i \in 1..Len(bgParticles.list) |->
                    StepBgParticle(bgParticles.list[i], scrollForce,
                                   canvas.width, canvas.height) ] ]
       /\ particles' = [ particles EXCEPT !.list = loop.ps ]
       /\ lastFrame' =
            [ ran |-> TRUE, armed |-> TRUE, sampled |-> scrollRefOk,
              gens |-> << particles.gen, bgParticles.gen >>,
              lens |-> << Len(particles.list), Len(bgParticles.list) >>,
              currentScroll |-> IF scrollRefOk THEN currentScroll ELSE 0,
              scrollDelta |-> scrollDelta, scrollForce |-> scrollForce,
              progressNaN |-> scrollProgress.nan,
              progressNum |-> scrollProgress.num,
              progressDen |-> scrollProgress.den,
              currentColor |-> CurrentColor(scrollProgress),
              sumDelta |-> lastFrame.sumDelta + scrollDelta,
              repulsion |-> [ i \in 1..Len(particles.list) |->
                                RepulsionOf(particles.list[i], mouse) ],
              mouse |-> mouse, log |-> loop.log,
              times |-> Append(lastFrame.times, time),
              resets |-> IF second THEN Append(lastFrame.resets, time)
                         ELSE lastFrame.resets,
              writes |-> IF second /\ fpsRefOk
                         THEN Append(lastFrame.writes,
                                     [ time |-> time, value |-> count ])
                         ELSE lastFrame.writes ]
       /\ Rearm(id)

\* The host runs the pending callback `id` with timestamp now + dt.
animate(id, dt) ==
    /\ id \in rafPending
    /\ steps.frames < MaxFrames
    /\ steps' = [ steps EXCEPT !.frames = @ + 1 ]
    /\ now' = now + dt
    /\ UNCHANGED hostVars
    /\ UNCHANGED << win, scrollTop, phase, refVars, listenerVars,
                    canvas, mouse, entityCount, hist >>
    /\ IF canvasRef /\ ctxOk
       THEN AnimateBody(id, now + dt)
       ELSE AnimateReturn(id)

(* --------------------------- specification ---------------------------- *)

Next ==
    \/ \E host \in HostConfigs, seed \in RandSeeds : Mount(host, seed)
    \/ DetachRefs
    \/ Cleanup
    \/ \E v \in Viewports, seed \in RandSeeds : WindowResize(v, seed)
    \/ \E pos \in PointerPositions : handleGlobalMouseMove(pos)
    \/ handleGlobalMouseLeave
    \/ \E offset \in ScrollOffsets : Scroll(offset)
    \/ \E id \in rafPending, dt \in TimeSteps : animate(id, dt)

Spec == Init /\ [][Next]_vars

(* ------------------------ mobile-aware page variant -------------------- *)

\* The host of the mobile-aware variant renders the simulator only while
\* its state isMobile is false: `{!isMobile && <AntiGravityCanvas ... />}`.
\* useIsMobile starts with useState(false); its effect runs checkMobile
\* (setIsMobile(window.innerWidth <= 768)) and registers it for `resize`.

\* viewports around the 768 pixel threshold
MobileViewports == { [ w |-> 769, h |-> 20, dpr |-> 1 ],
                     [ w |-> 768, h |-> 20, dpr |-> 1 ],
                     [ w |-> 375, h |-> 40, dpr |-> 2 ] }
\* the scroll container is always rendered, the frame-rate element is
\* rendered whenever the simulator is
MobileHostConfigs == { [ ctx |-> TRUE, scroll |-> TRUE, fps |-> TRUE ],
                       [ ctx |-> FALSE, scroll |-> TRUE, fps |-> TRUE ] }

\* checkMobile
checkMobile(innerWidth) == innerWidth <= 768

\* the state before the first render
InitMobile ==
    /\ win \in MobileViewports
    /\ scrollTop = 0
    /\ now = 0
    /\ phase = "unmounted"
    /\ canvasRef = FALSE /\ containerRef = FALSE /\ ctxOk = FALSE
    /\ scrollRefOk = FALSE /\ fpsRefOk = FALSE
    /\ resizeListener = FALSE /\ mouseListeners = FALSE
    /\ canvas = FreshCanvas
    /\ particles = FreshList /\ bgParticles = FreshList
    /\ mouse = FreshMouse
    /\ frameIdRef = 0 /\ rafPending = {} /\ nextRafId = 1
    /\ lastTimeRef = 0 /\ lastFpsTimeRef = 0 /\ frameCountRef = 0
    /\ lastScrollTopRef = 0
    /\ fpsText = -1
    /\ entityCount = 0
    /\ lastFrame = NoFrame
    /\ hist = [ initCalls |-> 0, reportCalls |-> 0, initW |-> 0, initH |-> 0 ]
    /\ steps = [ frames |-> 0, events |-> 0 ]
    /\ isMobile = FALSE /\ hostRendered = FALSE

\* First render (isMobile is false, so the simulator is rendered) and the
\* effects of the commit, children first: the three effects of the
\* simulator, then the effect of useIsMobile.
MobileFirstRender(host, seed) ==
    /\ ~hostRendered
    /\ MountCanvas(host, seed)
    /\ hostRendered' = TRUE
    /\ isMobile' = checkMobile(win.w)

\* the `resize` listeners in the order of their registration: handleResize
\* of the simulator (when it is mounted), then checkMobile
MobileResize(v, seed) ==
    /\ ResizeEvent(v, seed)
    /\ isMobile' = IF hostRendered THEN checkMobile(v.w) ELSE isMobile
    /\ UNCHANGED hostRendered

\* the render after isMobile became true removes the simulator ...
MobileDetach == isMobile /\ DetachRefs

\* ... and the render after it became false mounts a new one
MobileRemount(host, seed) ==
    /\ hostRendered /\ ~isMobile
    /\ MountCanvas(host, seed)
    /\ UNCHANGED hostVars

NextMobile ==
    \/ \E host \in MobileHostConfigs, seed \in RandSeeds :
          MobileFirstRender(host, seed)
    \/ \E v \in MobileViewports, seed \in RandSeeds : MobileResize(v, seed)
    \/ MobileDetach
    \/ Cleanup
    \/ \E host \in MobileHostConfigs, seed \in RandSeeds :
          MobileRemount(host, seed)
    \/ \E pos \in PointerPositions : handleGlobalMouseMove(pos)
    \/ handleGlobalMouseLeave
    \/ \E offset \in ScrollOffsets : Scroll(offset)
    \/ \E id \in rafPending, dt \in TimeSteps : animate(id, dt)

SpecMobile == InitMobile /\ [][NextMobile]_vars

(* ------------------- damping at the floor of the doubles --------------- *)

\* `p1.vx *= DAMPING` and `p1.vy *= DAMPING` where the velocity is a
\* subnormal double.  Subnormal doubles are the integer multiples k of
\* 2^-1074, the smallest positive double, and the product k * 0.92 is
\* rounded to the nearest of them.  92 * k is never an odd multiple of 50,
\* so there are no ties, and the excess of the double 0.92 over 92/100
\* (4 * 10^-17) cannot move the product across a half for any k below
\* 10^13: the result is the multiple floor((92 * k + 50) / 100).
\* Velocities of this specification are in units of 2^-1074 pixel per frame.
SubnormalVelocities == { -20, -7, -1, 0, 3, 6, 7, 20 }

\* a damping that divides by the factor
MulDamping_Divides(k) ==
    IF k >= 0 THEN (DAMPING_DEN * k + DAMPING_NUM \div 2) \div DAMPING_NUM
    ELSE -((DAMPING_DEN * (-k) + DAMPING_NUM \div 2) \div DAMPING_NUM)

\* k * DAMPING, rounded to nearest
MulDamping(k) ==
    IF k >= 0 THEN (DAMPING_NUM * k + DAMPING_DEN \div 2) \div DAMPING_DEN
    ELSE -((DAMPING_NUM * (-k) + DAMPING_DEN \div 2) \div DAMPING_DEN)

\* damping and integration of a particle with a subnormal velocity: a
\* position of pixel magnitude absorbs the velocity added to it
IntegrateSubnormal(p) ==
    [ p EXCEPT !.vx = MulDamping(p.vx), !.vy = MulDamping(p.vy) ]

\* One foreground particle at rest position (x = originX, y = originY: no
\* spring force), alone (no collision), the pointer inactive and the scroll
\* offset at rest (no repulsion, no scroll force), with a velocity left.
InitDamping ==
    /\ win = [ w |-> 200, h |-> 100, dpr |-> 1 ]
    /\ scrollTop = 0
    /\ now = 0
    /\ phase = "mounted"
    /\ canvasRef = TRUE /\ containerRef = TRUE /\ ctxOk = TRUE
    /\ scrollRefOk = TRUE /\ fpsRefOk = TRUE
    /\ resizeListener = TRUE /\ mouseListeners = TRUE
    /\ canvas = [ width |-> 200, height |-> 100, styleW |-> 200,
                  styleH |-> 100, scale |-> 1 ]
    /\ \E vx \in SubnormalVelocities, vy \in SubnormalVelocities :
          /\ << vx, vy >> # << 0, 0 >>
          /\ particles =
               [ gen |-> 1,
                 list |-> << [ NewParticle(1, 0, 200, 100)
                                 EXCEPT !.vx = vx, !.vy = vy ] >> ]
    /\ bgParticles = [ gen |-> 1, list |-> << >> ]
    /\ mouse = FreshMouse
    /\ frameIdRef = 1 /\ rafPending = { 1 } /\ nextRafId = 2
    /\ lastTimeRef = 0 /\ lastFpsTimeRef = 0 /\ frameCountRef = 0
    /\ lastScrollTopRef = 0
    /\ fpsText = -1
    /\ entityCount = 1
    /\ lastFrame = NoFrame
    /\ hist = [ initCalls |-> 1, reportCalls |-> 1, initW |-> 200,
                initH |-> 100 ]
    /\ steps = [ frames |-> 0, events |-> 0 ]
    /\ isMobile = FALSE /\ hostRendered = FALSE

\* a frame in which no force acts: of the physics of animate only the
\* damping and the integration change anything
DampingFrame ==
    /\ steps.frames < MaxDampingFrames
    /\ steps' = [ steps EXCEPT !.frames = @ + 1 ]
    /\ particles' = [ particles EXCEPT !.list =
                        [ i \in 1..Len(particles.list) |->
                            IntegrateSubnormal(particles.list[i]) ] ]
    /\ UNCHANGED hostVars
    /\ UNCHANGED << envVars, phase, refVars, listenerVars, canvas,
                    bgParticles, mouse, rafVars, fpsVars, lastScrollTopRef,
                    entityCount, lastFrame, hist >>

NextDamping == DampingFrame

SpecDamping == InitDamping /\ [][NextDamping]_vars

(* ======================= properties of the simulator =================== *)

\* both lists are the ones the latest initParticles call installed
ListsAreLatest ==
    /\ hist.initCalls > 0
    /\ particles.gen = hist.initCalls
    /\ bgParticles.gen = hist.initCalls

\* the step is an initParticles call
InitStep == hist'.initCalls # hist.initCalls

\* the step is a frame callback
FrameStep == steps'.frames # steps.frames

\* the frame callback of the step passes the two guards of animate
FrameRuns == FrameStep /\ canvasRef /\ ctxOk

(* ---------------------------------------------------------------------- *)
(* C1, as stated: for any dimensions W x H an initialization creates       *)
(* exactly floor(W*H*0.00015) foreground and floor(W*H*0.00005)            *)
(* background particles, the floor taken of the exact product              *)
(* (15*W*H/100000 and 5*W*H/100000).                                       *)
(* ---------------------------------------------------------------------- *)
C1_ExactProductCounts ==
    ListsAreLatest =>
        /\ Len(particles.list) = (15 * hist.initW * hist.initH) \div 100000
        /\ Len(bgParticles.list) = (5 * hist.initW * hist.initH) \div 100000

(* ---------------------------------------------------------------------- *)
(* C1, amended: an initialization with width W and height H creates        *)
(* exactly Math.floor(W*H*0.00015) foreground and Math.floor(W*H*0.00005)  *)
(* background particles, the products evaluated in double precision (the   *)
(* foreground count of 200 x 100 is 2, not 3); a zero-size container       *)
(* (W = 0 or H = 0) yields zero particles of both kinds.                   *)
(* ---------------------------------------------------------------------- *)
C1_DoubleProductCounts ==
    ListsAreLatest =>
        /\ Len(particles.list) = FloorParticleDensity(hist.initW * hist.initH)
        /\ Len(bgParticles.list) = FloorBgDensity(hist.initW * hist.initH)
        /\ (hist.initW = 0 \/ hist.initH = 0) =>
              (particles.list = << >> /\ bgParticles.list = << >>)

\* an initialization over 200 x 100 has created 2 foreground particles
\* and 1 background particle
C1_Witness ==
    /\ ListsAreLatest
    /\ hist.initW = 200 /\ hist.initH = 100
    /\ Len(particles.list) = 2 /\ Len(bgParticles.list) = 1

(* ---------------------------------------------------------------------- *)
(* C2: every initialization (the mount, and every resize event handled    *)
(* with container and canvas present) reports an entity count exactly     *)
(* once, and the value reported is the number of foreground plus the      *)
(* number of background particles just generated (1000 x 1000 gives       *)
(* 150 + 50 = 200).                                                        *)
(* ---------------------------------------------------------------------- *)
C2_ReportedOncePerInit ==
    /\ [](/\ hist.reportCalls = hist.initCalls
          /\ FloorParticleDensity(1000 * 1000) = 150
          /\ FloorBgDensity(1000 * 1000) = 50)
    /\ [][ /\ InitStep =>
                /\ hist'.initCalls = hist.initCalls + 1
                /\ hist'.reportCalls = hist.reportCalls + 1
                /\ entityCount' = Len(particles'.list) + Len(bgParticles'.list)
           /\ ~InitStep =>
                /\ hist'.reportCalls = hist.reportCalls
                /\ entityCount' = entityCount
           /\ (phase = "unmounted" /\ phase' = "mounted") => InitStep
           /\ ( /\ resizeListener /\ containerRef /\ canvasRef
                /\ \E v \in Viewports, seed \in RandSeeds :
                      WindowResize(v, seed) ) => InitStep ]_vars

\* a resize after the mount has reported the second count, and it is not
\* the count the mount reported
C2_Witness ==
    /\ hist.initCalls = 2 /\ hist.reportCalls = 2
    /\ phase = "mounted"
    /\ ListsAreLatest
    /\ entityCount = Len(particles.list) + Len(bgParticles.list)
    /\ entityCount = 5

(* ---------------------------------------------------------------------- *)
(* C3: as long as no initialization (resize) replaces the list, every     *)
(* foreground particle keeps the origin, the radius and the base colour   *)
(* it was created with, whatever frames and pointer events happen.        *)
(* ---------------------------------------------------------------------- *)
C3_OriginsFixed ==
    [][ particles'.gen = particles.gen =>
          /\ Len(particles'.list) = Len(particles.list)
          /\ \A i \in 1..Len(particles.list) :
                /\ particles'.list[i].originX = particles.list[i].originX
                /\ particles'.list[i].originY = particles.list[i].originY
                /\ particles'.list[i].size = particles.list[i].size
                /\ particles'.list[i].color = particles.list[i].color ]_vars

\* a frame has moved a particle away from its origin
C3_Witness ==
    /\ lastFrame.ran
    /\ \E i \in 1..Len(particles.list) :
          /\ particles.list[i].nan = 0
          /\ particles.list[i].x # particles.list[i].originX
          /\ particles.list[i].vy # 0

(* ---------------------------------------------------------------------- *)
(* C4: a frame never adds or removes a particle: between two              *)
(* initializations the lengths of both lists stay the counts of the       *)
(* latest initialization; an initialization replaces both lists by        *)
(* freshly generated particles (foreground: position = origin, velocity   *)
(* zero).                                                                  *)
(* ---------------------------------------------------------------------- *)
C4_ListsReplacedWholesale ==
    [][ /\ (particles'.gen = particles.gen /\ bgParticles'.gen = bgParticles.gen)
            => /\ Len(particles'.list) = Len(particles.list)
               /\ Len(bgParticles'.list) = Len(bgParticles.list)
        /\ FrameStep =>
               /\ particles'.gen = particles.gen
               /\ bgParticles'.gen = bgParticles.gen
        /\ InitStep =>
               /\ particles'.gen = hist'.initCalls
               /\ bgParticles'.gen = hist'.initCalls
               /\ Len(particles'.list) =
                      FloorParticleDensity(hist'.initW * hist'.initH)
               /\ Len(bgParticles'.list) =
                      FloorBgDensity(hist'.initW * hist'.initH)
               /\ \A i \in 1..Len(particles'.list) :
                     LET p == particles'.list[i]
                     IN /\ p.x = p.originX /\ p.y = p.originY
                        /\ p.vx = 0 /\ p.vy = 0 /\ p.nan = 0 ]_vars

\* frames moved the particles of the first initialization, then a resize
\* installed a fresh non-empty list
C4_Witness ==
    /\ ListsAreLatest
    /\ hist.initCalls >= 2
    /\ lastFrame.ran /\ lastFrame.gens[1] < particles.gen
    /\ lastFrame.lens[1] > 0
    /\ Len(particles.list) > 0

(* ---------------------------------------------------------------------- *)
(* C5: while the view is mounted and canvas and context are available,    *)
(* every frame requests the next callback at its end; the teardown        *)
(* cancels the pending callback, so no callback is pending and no frame   *)
(* executes once the view is torn down.                                   *)
(* ---------------------------------------------------------------------- *)
C5_RearmedUntilTeardown ==
    /\ [](phase = "unmounted" => rafPending = {})
    /\ [][ /\ (FrameRuns /\ phase = "mounted") =>
                /\ frameIdRef' # frameIdRef
                /\ rafPending' = { frameIdRef' }
           /\ (phase = "detached" /\ phase' = "unmounted") =>
                rafPending' = {}
           /\ phase = "unmounted" => ~FrameStep ]_vars

\* the view was torn down after frames had run and re-armed
C5_Witness ==
    /\ phase = "unmounted"
    /\ steps.frames >= 2
    /\ hist.initCalls >= 1
    /\ nextRafId >= 3
    /\ rafPending = {}

(* ---------------------------------------------------------------------- *)
(* C6: a frame callback that finds the canvas or its context unavailable  *)
(* requests no further frame; from then on no frame executes until the    *)
(* start effect runs again (a new mount).                                 *)
(* ---------------------------------------------------------------------- *)
C6_HaltedUntilRestart ==
    [][ /\ (FrameStep /\ ~(canvasRef /\ ctxOk)) =>
            /\ rafPending' = {}
            /\ nextRafId' = nextRafId
            /\ frameIdRef' = frameIdRef
        /\ rafPending = {} => ~FrameStep
        /\ (rafPending = {} /\ rafPending' # {}) =>
            (phase = "unmounted" /\ phase' = "mounted") ]_vars

\* frames ran, then one found the canvas gone (refs cleared, cleanup not
\* yet run) and left nothing pending
C6_Witness ==
    /\ phase = "detached"
    /\ ~canvasRef /\ ctxOk
    /\ lastFrame.gens[1] > 0 /\ ~lastFrame.ran
    /\ rafPending = {}

(* ---------------------------------------------------------------------- *)
(* C7: under every interleaving of resize events and frames, the          *)
(* foreground list and the background list a frame reads are both the     *)
(* complete result of one and the same initialization call.               *)
(* ---------------------------------------------------------------------- *)
C7_ListsOfOneInit ==
    /\ particles.gen = bgParticles.gen
    /\ particles.gen \in { 0, hist.initCalls }
    /\ particles.gen = 0 => (particles.list = << >> /\ bgParticles.list = << >>)
    /\ particles.gen > 0 =>
          /\ Len(particles.list) = FloorParticleDensity(hist.initW * hist.initH)
          /\ Len(bgParticles.list) = FloorBgDensity(hist.initW * hist.initH)
    /\ lastFrame.ran => lastFrame.gens[1] = lastFrame.gens[2]

\* frames ran on the lists of the mount, a resize replaced them, and a
\* frame then read the two lists of the second initialization
C7_Witness ==
    /\ lastFrame.ran
    /\ steps.frames >= 2
    /\ lastFrame.gens = << 2, 2 >>
    /\ lastFrame.lens[1] > 0 /\ lastFrame.lens[2] > 0

(* ---------------------------------------------------------------------- *)
(* C8: the colour of a frame is exactly (66,133,244) at scroll progress   *)
(* 0, (147,51,234) at progress 1 and (34,211,238) at progress 2; for      *)
(* progress <= 1 every channel is the linear interpolation from stop 0 to *)
(* stop 1 by progress rounded to the nearest integer (halves up),         *)
(* otherwise the one from stop 1 to stop 2 by progress - 1.               *)
(* ---------------------------------------------------------------------- *)
\* c is Math.round(x) for x = start + (end - start) * num / den
IsRounded(c, start, end, num, den) ==
    LET x2 == 2 * (start * den + (end - start) * num)
    IN 2 * c * den <= x2 + den /\ x2 + den < 2 * (c + 1) * den

C8_ColourStops ==
    (lastFrame.ran /\ ~lastFrame.progressNaN) =>
        LET num == lastFrame.progressNum
            den == lastFrame.progressDen
            c == lastFrame.currentColor
            stop0 == << 66, 133, 244 >>
            stop1 == << 147, 51, 234 >>
            stop2 == << 34, 211, 238 >>
        IN /\ num = 0 => c = stop0
           /\ num = den => c = stop1
           /\ num = 2 * den => c = stop2
           /\ num <= den =>
                 \A i \in 1..3 : IsRounded(c[i], stop0[i], stop1[i], num, den)
           /\ num > den =>
                 \A i \in 1..3 :
                    IsRounded(c[i], stop1[i], stop2[i], num - den, den)

\* a frame at progress 250/200 = 1.25 has drawn (119, 91, 235)
C8_Witness ==
    /\ lastFrame.ran /\ lastFrame.sampled /\ ~lastFrame.progressNaN
    /\ lastFrame.progressNum = 250 /\ lastFrame.progressDen = 200
    /\ lastFrame.currentColor = << 119, 91, 235 >>

(* ---------------------------------------------------------------------- *)
(* C9: in every frame, for every scroll offset and every viewport height, *)
(* scrollProgress is clamp(offset / viewport-height, 0, 2) and so lies in *)
(* the interval [0, 2].                                                    *)
(* ---------------------------------------------------------------------- *)
C9_ProgressInRange ==
    (lastFrame.ran /\ lastFrame.sampled) =>
        /\ ~lastFrame.progressNaN
        /\ 0 <= lastFrame.progressNum
        /\ lastFrame.progressNum <= 2 * lastFrame.progressDen

(* ---------------------------------------------------------------------- *)
(* C10: in every frame with the scroll container present, scrollDelta is  *)
(* the offset sampled in this frame minus the offset stored by the        *)
(* previous such frame (0 before the first), the stored offset becomes    *)
(* the sampled one and scrollForce = -0.05 * scrollDelta (0 -> 100 gives  *)
(* scrollDelta 100 and scrollForce -5); so the scrollDeltas of all frames *)
(* sum to the last sampled offset.                                        *)
(* ---------------------------------------------------------------------- *)
C10_ScrollDelta ==
    /\ [](lastFrame.sumDelta = lastScrollTopRef)
    /\ [][ (FrameRuns /\ scrollRefOk) =>
             /\ lastFrame'.scrollDelta = scrollTop - lastScrollTopRef
             /\ lastScrollTopRef' = scrollTop
             /\ 20 * lastFrame'.scrollForce = -Scale * lastFrame'.scrollDelta
             /\ lastFrame'.scrollDelta = 100 =>
                   lastFrame'.scrollForce = -5 * Scale
             /\ lastFrame'.sumDelta = lastFrame.sumDelta + lastFrame'.scrollDelta
          ]_vars

\* the offset went from 0 to 100 between two frames: the second frame has
\* scrollDelta 100 and scrollForce -5 pixels per frame
C10_Witness ==
    /\ lastFrame.ran /\ lastFrame.sampled
    /\ steps.frames >= 2
    /\ lastFrame.scrollDelta = 100
    /\ lastFrame.scrollForce = -5 * Scale
    /\ lastScrollTopRef = 100
    /\ lastFrame.sumDelta = 100

(* ---------------------------------------------------------------------- *)
(* C11, as stated: background particles wrap at the four edges of the     *)
(* W x H area over which they were generated: after advancing, x > W      *)
(* becomes 0, x < 0 becomes W, y > H becomes 0 and y < 0 becomes H.       *)
(* The frame wraps at canvas.width and canvas.height, which are W and H   *)
(* times the device pixel ratio.                                          *)
(* ---------------------------------------------------------------------- *)
WrappedAt(a, max) == IF a < 0 THEN max ELSE IF a > max THEN 0 ELSE a

C11_WrapAtGeneratedEdges ==
    [][ FrameRuns =>
          \A i \in 1..Len(bgParticles.list) :
             LET p == bgParticles.list[i]
                 q == bgParticles'.list[i]
                 ax == p.x + p.vx
                 ay == p.y + p.vy + TDiv(lastFrame'.scrollForce, 10)
             IN /\ q.x = WrappedAt(ax, hist.initW * Scale)
                /\ q.y = WrappedAt(ay, hist.initH * Scale)
      ]_vars

(* ------------------ what the second loop did in a frame ---------------- *)

\* the collision checks and the integrations of the latest completed frame
Checks == SelectSeq(lastFrame.log, LAMBDA e : e.op = "check")
Integrations == SelectSeq(lastFrame.log, LAMBDA e : e.op = "integrate")

\* squared distance of the two particles a check read / left behind
DistSqOf(pair) ==
    (pair[2].x - pair[1].x) * (pair[2].x - pair[1].x)
    + (pair[2].y - pair[1].y) * (pair[2].y - pair[1].y)

\* the check read two particles of equal radius r closer than 2r
\* (positions that are numbers, |dx| and |dy| below 2r keep the squares small)
OverlapsEqualRadius(e) ==
    /\ e.op = "check"
    /\ e.read[1].nan < 2 /\ e.read[2].nan < 2
    /\ e.read[1].size = e.read[2].size
    /\ Abs(e.read[2].x - e.read[1].x) < 2 * e.read[1].size
    /\ Abs(e.read[2].y - e.read[1].y) < 2 * e.read[1].size
    /\ DistSqOf(e.read) < 4 * e.read[1].size * e.read[1].size

\* the check moved both particles apart along the line joining them, by
\* equal and opposite displacements, to distance 2r.  On the fixed-point
\* grid each component of the push is truncated by less than one unit and
\* the distance read is the floor of the exact one, so the distance left
\* lies between 2r - 3 and 2r + 1 units of 1/Scale (0.03 pixel).
SeparatedTo2r(e) ==
    LET r == e.read[1].size
        dx == e.read[2].x - e.read[1].x
        dy == e.read[2].y - e.read[1].y
        pushX == e.wrote[2].x - e.read[2].x
        pushY == e.wrote[2].y - e.read[2].y
    IN /\ e.wrote[1].x - e.read[1].x = -pushX
       /\ e.wrote[1].y - e.read[1].y = -pushY
       /\ pushX * dx >= 0 /\ pushY * dy >= 0
       /\ Abs(pushX * dy - pushY * dx) <= Abs(dx) + Abs(dy)
       /\ DistSqOf(e.wrote) >= (2 * r - 3) * (2 * r - 3)
       /\ DistSqOf(e.wrote) <= (2 * r + 1) * (2 * r + 1)

(* ---------------------------------------------------------------------- *)
(* C12, as stated: a checked pair of equal radius r at distance d < 2r is *)
(* moved apart along the line joining it by (2r - d)/2 each, to distance  *)
(* 2r, for every d < 2r.                                                  *)
(* ---------------------------------------------------------------------- *)
C12_SeparatedForEveryDistance ==
    lastFrame.ran =>
        \A k \in 1..Len(lastFrame.log) :
            OverlapsEqualRadius(lastFrame.log[k]) =>
                SeparatedTo2r(lastFrame.log[k])

(* ---------------------------------------------------------------------- *)
(* C12, amended: a checked pair of equal radius r at distance d with      *)
(* 0.01 < d < 2r is moved apart along the line joining it by (2r - d)/2   *)
(* each, equal and opposite, so that its distance afterwards is 2r; a     *)
(* pair at distance d <= 0.01 is left where it is.  A check changes       *)
(* nothing but the positions of its pair.                                 *)
(* ---------------------------------------------------------------------- *)
C12_SeparatedAboveThreshold ==
    lastFrame.ran =>
        \A k \in 1..Len(lastFrame.log) :
            LET e == lastFrame.log[k]
            IN OverlapsEqualRadius(e) =>
                 /\ DistSqOf(e.read) > 1 => SeparatedTo2r(e)
                 /\ DistSqOf(e.read) <= 1 => e.wrote = e.read
                 /\ \A n \in 1..2 :
                       e.wrote[n] = [ e.read[n] EXCEPT !.x = e.wrote[n].x,
                                                       !.y = e.wrote[n].y ]

\* a frame checked a pair of radius 1 pixel at distance 1.56 pixel and left
\* it at distance 2 pixels
C12_Witness ==
    /\ lastFrame.ran
    /\ \E k \in 1..Len(lastFrame.log) :
          LET e == lastFrame.log[k]
          IN /\ OverlapsEqualRadius(e)
             /\ e.read[1].size = Scale
             /\ DistSqOf(e.read) = 156 * 156
             /\ DistSqOf(e.wrote) = 4 * Scale * Scale
             /\ e.wrote[1].x = e.read[1].x - 22
             /\ e.wrote[2].x = e.read[2].x + 22

\* the pairs (lower, higher) of 0-based indices the latest frame checked
CheckedPairs ==
    { << Checks[k].i - 1, Checks[k].j - 1 >> : k \in 1..Len(Checks) }

\* the pairs of distinct foreground particles of the latest frame, 0-based
AllPairs ==
    { pr \in (0..(lastFrame.lens[1] - 1)) \X (0..(lastFrame.lens[1] - 1)) :
         pr[1] < pr[2] }

(* ---------------------------------------------------------------------- *)
(* C13, as stated: in each frame every pair of distinct foreground        *)
(* particles with at least one even index is checked for collision; the   *)
(* only pairs never checked are those with both indices odd.              *)
(* ---------------------------------------------------------------------- *)
C13_EvenInvolvedPairsChecked ==
    lastFrame.ran =>
        \A pr \in AllPairs :
            (pr \in CheckedPairs) <=> (pr[1] % 2 = 0 \/ pr[2] % 2 = 0)

(* ---------------------------------------------------------------------- *)
(* C13, amended: in each frame a pair of distinct foreground particles is *)
(* checked for collision, once, exactly when the lower of its two indices *)
(* is even; a pair whose lower index is odd is never checked, whatever    *)
(* its higher index (the pair (1, 2) is not checked).                     *)
(* ---------------------------------------------------------------------- *)
C13_LowerEvenPairsChecked ==
    lastFrame.ran =>
        /\ \A pr \in AllPairs : (pr \in CheckedPairs) <=> (pr[1] % 2 = 0)
        /\ CheckedPairs \subseteq AllPairs
        /\ Len(Checks) = Cardinality(CheckedPairs)

\* a frame over four particles checked (0,1), (0,2), (0,3) and (2,3), and
\* neither (1,2) nor (1,3)
C13_Witness ==
    /\ lastFrame.ran
    /\ lastFrame.lens[1] = 4
    /\ CheckedPairs = { << 0, 1 >>, << 0, 2 >>, << 0, 3 >>, << 2, 3 >> }

\* the displacement << x, y >> the checks of a log gave particle i
RECURSIVE NetPush(_, _)
NetPush(log, i) ==
    IF log = << >> THEN << 0, 0 >>
    ELSE LET e == Head(log)
             rest == NetPush(Tail(log), i)
             n == IF e.op = "check" /\ e.i = i THEN 1
                  ELSE IF e.op = "check" /\ e.j = i THEN 2 ELSE 0
         IN IF n = 0 THEN rest
            ELSE << rest[1] + e.wrote[n].x - e.read[n].x,
                    rest[2] + e.wrote[n].y - e.read[n].y >>

(* ---------------------------------------------------------------------- *)
(* C14: in every frame that runs to completion each foreground particle   *)
(* is damped and integrated exactly once: its velocity becomes 0.92 times *)
(* the velocity the forces of this frame left it with, and its position   *)
(* becomes the position at the start of the frame, moved by the pushes of *)
(* the collision checks it took part in, plus that damped velocity once;  *)
(* this for every index and any number of collisions.                     *)
(* ---------------------------------------------------------------------- *)
C14_DampedAndAdvancedOnce ==
    /\ [](lastFrame.ran =>
            /\ Len(Integrations) = lastFrame.lens[1]
            /\ \A k \in 1..Len(Integrations) : Integrations[k].i = k)
    /\ [][ FrameRuns =>
             \A i \in 1..Len(particles.list) :
                LET f == ApplyForces(particles.list[i], mouse,
                                     lastFrame'.scrollForce)
                    q == particles'.list[i]
                    push == NetPush(lastFrame'.log, i)
                IN f.nan = 0 =>
                     /\ q.nan = 0
                     /\ q.vx = TDiv(f.vx * DAMPING_NUM, DAMPING_DEN)
                     /\ q.vy = TDiv(f.vy * DAMPING_NUM, DAMPING_DEN)
                     /\ q.x = particles.list[i].x + push[1] + q.vx
                     /\ q.y = particles.list[i].y + push[2] + q.vy
         ]_vars

\* a frame left the odd-indexed particle 1 with a velocity of 0.92 times a
\* nonzero one, after a collision check had pushed it
C14_Witness ==
    /\ lastFrame.ran
    /\ particles.gen = lastFrame.gens[1]
    /\ \E k \in 1..Len(lastFrame.log) :
          LET e == lastFrame.log[k]
          IN /\ e.op = "integrate" /\ e.i = 2
             /\ e.read[1].nan = 0
             /\ e.read[1].vy # 0
             /\ e.wrote[1].vy = TDiv(e.read[1].vy * DAMPING_NUM, DAMPING_DEN)
             /\ e.wrote[1].vy # e.read[1].vy
             /\ particles.list[2] = e.wrote[1]
    /\ NetPush(lastFrame.log, 2) # << 0, 0 >>

(* ---------------------------------------------------------------------- *)
(* C15: within a frame every collision check reads positions of both of   *)
(* its particles to which this frame's damping and integration have not   *)
(* yet been applied: no particle is integrated before a check it is part  *)
(* of.                                                                    *)
(* ---------------------------------------------------------------------- *)
C15_ChecksReadUnintegrated ==
    lastFrame.ran =>
        \A k \in 1..Len(lastFrame.log) :
            lastFrame.log[k].op = "check" =>
                \A m \in 1..(k - 1) :
                    lastFrame.log[m].op = "integrate" =>
                        /\ lastFrame.log[m].i # lastFrame.log[k].i
                        /\ lastFrame.log[m].i # lastFrame.log[k].j

\* the check of the pair (2, 3) came after particles 0 and 1 had been
\* integrated and before particles 2 and 3 were
C15_Witness ==
    /\ lastFrame.ran
    /\ \E k \in 1..Len(lastFrame.log) :
          /\ lastFrame.log[k].op = "check"
          /\ lastFrame.log[k].i = 3 /\ lastFrame.log[k].j = 4
          /\ { lastFrame.log[m].i : m \in 1..(k - 1) } = { 1, 2 }
          /\ \E m \in (k + 1)..Len(lastFrame.log) :
                lastFrame.log[m].op = "integrate" /\ lastFrame.log[m].i = 3

(* ------------------------- pointer and particles ----------------------- *)

\* particle p lies at a distance below MOUSE_RADIUS from the pointer m
WithinRadius(p, m) ==
    LET dx == m.x * Scale - p.x
        dy == m.y * Scale - p.y
        radius == MOUSE_RADIUS * Scale
    IN /\ Abs(dx) < radius /\ Abs(dy) < radius
       /\ dx * dx + dy * dy < radius * radius

\* the velocity change r points from the pointer m straight to p and has
\* magnitude ((250 - d) / 250) * 1.2 * 5 pixels per frame.  On the
\* fixed-point grid the two components are truncated by less than one unit
\* each, and the direction is divided by the floor d of the distance, which
\* stretches the change by at most (d + 1) / d.
RepelledFrom(r, p, m) ==
    LET dx == m.x * Scale - p.x
        dy == m.y * Scale - p.y
        radius == MOUSE_RADIUS * Scale
        d == Sqrt(dx * dx + dy * dy)
        magnitude == ((radius - d) * 12 * 5 * Scale) \div (radius * 10)
        speed == Sqrt(r.dvx * r.dvx + r.dvy * r.dvy)
    IN /\ ~r.nan
       /\ r.dvx * dx <= 0 /\ r.dvy * dy <= 0
       /\ Abs(r.dvx * dy - r.dvy * dx) <= Abs(dx) + Abs(dy)
       /\ d * (speed - 1) <= magnitude * (d + 1)
       /\ speed + 3 >= magnitude
       /\ (dx * dx + dy * dy = 100 * Scale * 100 * Scale /\ dy = 0) =>
             Abs(r.dvx) = (6 * 6 * Scale) \div 10

(* ---------------------------------------------------------------------- *)
(* C16, as stated: in a frame a foreground particle receives mouse        *)
(* repulsion if and only if the pointer is active and the particle's      *)
(* distance d to the pointer is below 250; the velocity change then       *)
(* points directly away from the pointer with magnitude                   *)
(* ((250 - d) / 250) * 1.2 * 5 (force factor 0.6 at d = 100).             *)
(* ---------------------------------------------------------------------- *)
C16_RepulsionLaw ==
    [][ FrameRuns =>
          \A i \in 1..Len(particles.list) :
             LET p == particles.list[i]
                 r == lastFrame'.repulsion[i]
             IN p.nan = 0 =>
                  IF mouse.isActive /\ WithinRadius(p, mouse)
                  THEN RepelledFrom(r, p, mouse)
                  ELSE r = [ nan |-> FALSE, dvx |-> 0, dvy |-> 0 ]
      ]_vars

\* step 1 of a frame left the velocity of a particle alone
NoRepulsion == [ nan |-> FALSE, dvx |-> 0, dvy |-> 0 ]

(* ---------------------------------------------------------------------- *)
(* C17: the pointer is inactive initially (while no instance is mounted   *)
(* and when one has just been mounted) and after every pointer-leave      *)
(* event, which keeps the last position; it is active after every         *)
(* pointer-move event, which stores the event's coordinates; in every     *)
(* frame executed while the pointer is inactive no particle receives      *)
(* mouse repulsion, whatever the last known position.                     *)
(* ---------------------------------------------------------------------- *)
C17_PointerFlag ==
    /\ []((phase = "unmounted") => mouse = FreshMouse)
    /\ [][ /\ (phase = "unmounted" /\ phase' = "mounted") =>
                ~mouse'.isActive
           /\ handleGlobalMouseLeave =>
                (~mouse'.isActive /\ mouse'.x = mouse.x /\ mouse'.y = mouse.y)
           /\ \A pos \in PointerPositions :
                handleGlobalMouseMove(pos) =>
                   mouse' = [ x |-> pos[1], y |-> pos[2], isActive |-> TRUE ]
           /\ (FrameRuns /\ ~mouse.isActive) =>
                /\ lastFrame'.mouse = mouse
                /\ \A i \in 1..Len(particles.list) :
                      lastFrame'.repulsion[i] = NoRepulsion
         ]_vars

\* a frame ran after the pointer had moved to (50, 50) and left: particles
\* lie within the radius of that position and none was repelled
C17_Witness ==
    /\ lastFrame.ran
    /\ particles.gen = lastFrame.gens[1]
    /\ lastFrame.mouse = [ x |-> 50, y |-> 50, isActive |-> FALSE ]
    /\ lastFrame.lens[1] > 0
    /\ \A i \in 1..Len(lastFrame.repulsion) :
          lastFrame.repulsion[i] = NoRepulsion
    /\ \E i \in 1..Len(particles.list) :
          particles.list[i].nan = 0 /\ WithinRadius(particles.list[i], mouse)

(* --------------------------- frame-rate display ------------------------ *)

\* lastFrame.times are the timestamps of the frames this instance has
\* executed, lastFrame.resets those of the frames that reset the counter,
\* lastFrame.writes the texts written to the display with their timestamps.

\* the timestamp of the latest counter reset before t (the time origin, the
\* initial value of lastFpsTimeRef, when there is none)
PrevReset(t) ==
    LET earlier == { lastFrame.resets[n] : n \in 1..Len(lastFrame.resets) }
                   \cap 0..(t - 1)
    IN IF earlier = {} THEN 0
       ELSE CHOOSE r \in earlier : \A u \in earlier : u <= r

\* the frames executed after the reset before t, up to the one at t
FramesSinceReset(t) ==
    Cardinality({ n \in 1..Len(lastFrame.times) :
                     /\ lastFrame.times[n] > PrevReset(t)
                     /\ lastFrame.times[n] <= t })

(* ---------------------------------------------------------------------- *)
(* C18: the frame-rate display is written at most once per second: a      *)
(* write happens only in a frame whose timestamp is at least 1000 ms      *)
(* later than that of the previous counter reset (the time origin before  *)
(* the first one), so two writes are never less than 1000 ms apart, and   *)
(* the value written is the number of frames executed since that reset,   *)
(* counting the current frame.  The display changes in no other step.     *)
(* ---------------------------------------------------------------------- *)
C18_FpsWrites ==
    /\ [](\A k \in 1..Len(lastFrame.writes) :
             LET w == lastFrame.writes[k]
             IN /\ w.time - PrevReset(w.time) >= 1000
                /\ w.value = FramesSinceReset(w.time)
                /\ k > 1 => w.time - lastFrame.writes[k - 1].time >= 1000
                /\ k = Len(lastFrame.writes) => fpsText = w.value)
    /\ [][ (fpsText' # fpsText /\ phase' = "mounted") =>
              /\ FrameRuns
              /\ Len(lastFrame'.writes) = Len(lastFrame.writes) + 1
              /\ now' - PrevReset(now') >= 1000
         ]_vars

\* frames at 16 ms and 1016 ms: the first writes nothing, the second writes
\* 2, the frames executed since the time origin
C18_Witness ==
    /\ lastFrame.times = << 16, 1016 >>
    /\ lastFrame.writes = << [ time |-> 1016, value |-> 2 ] >>
    /\ lastFrame.resets = << 1016 >>
    /\ fpsText = 2
    /\ frameCountRef = 0 /\ lastFpsTimeRef = 1016

(* ---------------------------------------------------------------------- *)
(* C19: an absent handle makes the operation a no-op: a frame that finds  *)
(* the canvas or its context absent, and a resize whose handler finds the *)
(* container or the canvas absent, change no simulator state (particle    *)
(* lists, canvas size, stored scroll offset, frame counter, last frame    *)
(* and last FPS time, display text, pointer) and report no entity count.  *)
(* ---------------------------------------------------------------------- *)
C19_AbsentHandleSkips ==
    [][ ( \/ FrameStep /\ ~(canvasRef /\ ctxOk)
          \/ /\ \E v \in Viewports, seed \in RandSeeds : WindowResize(v, seed)
             /\ resizeListener
             /\ ~(containerRef /\ canvasRef) )
        => UNCHANGED << particles, bgParticles, canvas, lastScrollTopRef,
                        frameCountRef, lastTimeRef, lastFpsTimeRef, fpsText,
                        mouse, entityCount, hist >>
      ]_vars

\* the refs were emptied, the window was resized to another viewport and
\* the pending frame ran: the particles, the canvas and the reports are
\* still those of the mount
C19_Witness ==
    /\ phase = "detached"
    /\ resizeListener
    /\ steps.frames = 1 /\ ~lastFrame.ran /\ rafPending = {}
    /\ win.w # hist.initW
    /\ canvas.styleW = hist.initW
    /\ hist.initCalls = 1 /\ hist.reportCalls = 1
    /\ particles.gen = 1 /\ Len(particles.list) > 0
    /\ entityCount = Len(particles.list) + Len(bgParticles.list)

(* ------------------------- damping convergence ------------------------- *)

\* squared speed of a particle
SpeedSq(p) == p.vx * p.vx + p.vy * p.vy

\* the step is a frame of the damping specification
DampingStep == steps'.frames = steps.frames + 1

(* ---------------------------------------------------------------------- *)
(* C20, as stated: for a foreground particle with nonzero velocity and    *)
(* zero applied forces the speed after each frame is strictly smaller     *)
(* than before, so that repeated frames drive it toward zero.             *)
(* ---------------------------------------------------------------------- *)
C20_SpeedStrictlySmaller ==
    [][ DampingStep =>
          \A i \in 1..Len(particles.list) :
             SpeedSq(particles.list[i]) # 0 =>
                SpeedSq(particles'.list[i]) < SpeedSq(particles.list[i])
      ]_vars

(* ---------------------------------------------------------------------- *)
(* C20, amended: for a foreground particle with nonzero velocity and zero *)
(* applied forces, each frame replaces each velocity component by the     *)
(* double nearest to 0.92 times it: the component keeps its sign and      *)
(* never grows in magnitude, so the speed never grows; the speed is       *)
(* strictly smaller after the frame as long as a component exceeds        *)
(* 6 * 2^-1074 in magnitude, and a component of magnitude at most         *)
(* 6 * 2^-1074 is left as it is: repeated frames drive the speed down     *)
(* monotonically to that floor, not to zero.                              *)
(* ---------------------------------------------------------------------- *)
C20_SpeedNeverGrows ==
    [][ DampingStep =>
          \A i \in 1..Len(particles.list) :
             LET p == particles.list[i]
                 q == particles'.list[i]
             IN /\ q.vx * p.vx >= 0 /\ q.vy * p.vy >= 0
                /\ Abs(q.vx) <= Abs(p.vx) /\ Abs(q.vy) <= Abs(p.vy)
                /\ 2 * Abs(DAMPING_DEN * q.vx - DAMPING_NUM * p.vx)
                      < DAMPING_DEN
                /\ 2 * Abs(DAMPING_DEN * q.vy - DAMPING_NUM * p.vy)
                      < DAMPING_DEN
                /\ SpeedSq(q) <= SpeedSq(p)
                /\ (Abs(p.vx) > 6 \/ Abs(p.vy) > 6) => SpeedSq(q) < SpeedSq(p)
                /\ Abs(p.vx) <= 6 => q.vx = p.vx
                /\ Abs(p.vy) <= 6 => q.vy = p.vy
                /\ q.x = p.x /\ q.y = p.y
      ]_vars

\* fourteen frames brought a velocity from (20, -20) down to (6, -6), where
\* the following frames leave it
C20_Witness ==
    /\ steps.frames = MaxDampingFrames
    /\ Len(particles.list) = 1
    /\ particles.list[1].vx = 6 /\ particles.list[1].vy = -6
    /\ particles.list[1].x = particles.list[1].originX
    /\ particles.list[1].y = particles.list[1].originY
    /\ ~mouse.isActive

(* ------------------------------ scroll force --------------------------- *)

\* a position that advanced to a: a itself within 0..max, else one of the
\* two edges
AdvancedTo(v, a, max) ==
    IF 0 <= a /\ a <= max THEN v = a ELSE v \in { 0, max }

(* ---------------------------------------------------------------------- *)
(* C21: in a frame with scroll force F every foreground particle's        *)
(* vertical velocity receives the full F before damping (with the mouse   *)
(* repulsion and the spring force of the frame), its horizontal velocity  *)
(* receives none of it; every background particle keeps its velocity, and *)
(* its position advances by its own vx horizontally and by its own vy     *)
(* plus 0.1 * F vertically (then wraps at the canvas edges).              *)
(* ---------------------------------------------------------------------- *)
C21_ScrollForceShares ==
    [][ FrameRuns =>
          LET F == lastFrame'.scrollForce
          IN /\ \A i \in 1..Len(particles.list) :
                   LET p == particles.list[i]
                       q == particles'.list[i]
                       r == lastFrame'.repulsion[i]
                   IN (p.nan = 0 /\ ~r.nan) =>
                        /\ q.vy = TDiv((p.vy + r.dvy + F
                                        + TDiv(p.originY - p.y, RETURN_SPEED_DEN))
                                       * DAMPING_NUM, DAMPING_DEN)
                        /\ q.vx = TDiv((p.vx + r.dvx
                                        + TDiv(p.originX - p.x, RETURN_SPEED_DEN))
                                       * DAMPING_NUM, DAMPING_DEN)
             /\ \A i \in 1..Len(bgParticles.list) :
                   LET p == bgParticles.list[i]
                       q == bgParticles'.list[i]
                   IN /\ q.vx = p.vx /\ q.vy = p.vy
                      /\ AdvancedTo(q.x, p.x + p.vx, canvas.width * Scale)
                      /\ AdvancedTo(q.y, p.y + p.vy + TDiv(F, 10),
                                    canvas.height * Scale)
      ]_vars

\* the first frame after the offset went from 0 to 100: F = -5, a particle
\* at rest has vertical velocity 0.92 * (-5) = -4.6 and horizontal velocity
\* 0, and a background particle advanced inside the canvas
C21_Witness ==
    /\ lastFrame.ran /\ steps.frames = 1
    /\ particles.gen = lastFrame.gens[1] /\ bgParticles.gen = lastFrame.gens[2]
    /\ lastFrame.scrollForce = -5 * Scale
    /\ ~lastFrame.mouse.isActive
    /\ Len(particles.list) > 0
    /\ particles.list[1].vy = -460 /\ particles.list[1].vx = 0
    /\ Len(bgParticles.list) > 0
    /\ bgParticles.list[1].y > 0
    /\ bgParticles.list[1].y < canvas.height * Scale

\* how often the latest frame checked the particles with the 0-based
\* indices a and b against each other, in either order
CheckCount(a, b) ==
    Len(SelectSeq(Checks,
                  LAMBDA e : { e.i - 1, e.j - 1 } = { a, b }))

(* ---------------------------------------------------------------------- *)
(* C22: within one frame a pair of foreground particles with indices      *)
(* i < j is checked for collision exactly once if i is even and never if  *)
(* i is odd; no pair is checked twice, and every check is initiated by    *)
(* the lower index of its pair.                                           *)
(* ---------------------------------------------------------------------- *)
C22_CheckedOnceOrNever ==
    lastFrame.ran =>
        /\ \A i \in 0..(lastFrame.lens[1] - 1) :
              \A j \in (i + 1)..(lastFrame.lens[1] - 1) :
                  CheckCount(i, j) = IF i % 2 = 0 THEN 1 ELSE 0
        /\ \A k \in 1..Len(Checks) :
              /\ 1 <= Checks[k].i /\ Checks[k].i < Checks[k].j
              /\ Checks[k].j <= lastFrame.lens[1]

\* a frame over four particles: four checks, one of (0, 3), one of (2, 3),
\* none of (1, 3)
C22_Witness ==
    /\ lastFrame.ran
    /\ lastFrame.lens[1] = 4
    /\ Len(Checks) = 4
    /\ CheckCount(0, 3) = 1 /\ CheckCount(2, 3) = 1 /\ CheckCount(1, 3) = 0

(* ---------------------------------------------------------------------- *)
(* C23: pointer events only update the pointer state: a pointer-move or   *)
(* pointer-leave handler leaves both particle lists, the canvas, the      *)
(* stored scroll offset, the frame-rate counters and the reports          *)
(* unchanged; while an instance is mounted the particle lists are changed *)
(* only by a frame callback that passes its guards, or replaced by an     *)
(* initialization (mount, resize).                                        *)
(* ---------------------------------------------------------------------- *)
C23_PointerEventsOnlyPointer ==
    [][ /\ ( \/ handleGlobalMouseLeave
             \/ \E pos \in PointerPositions : handleGlobalMouseMove(pos) )
           => UNCHANGED << particles, bgParticles, canvas, lastScrollTopRef,
                           frameCountRef, lastTimeRef, lastFpsTimeRef,
                           fpsText, entityCount, hist >>
        /\ ( /\ << particles, bgParticles >>' # << particles, bgParticles >>
             /\ phase' # "unmounted" )
           => (FrameRuns \/ InitStep)
      ]_vars

\* the pointer moved over freshly generated particles before any frame:
\* they are all still at rest at their origins
C23_Witness ==
    /\ mouse.isActive /\ mouse.x = 50 /\ mouse.y = 50
    /\ steps.frames = 0
    /\ particles.gen = 1 /\ Len(particles.list) > 1
    /\ \A i \in 1..Len(particles.list) :
          /\ particles.list[i].x = particles.list[i].originX
          /\ particles.list[i].y = particles.list[i].originY
          /\ particles.list[i].vx = 0 /\ particles.list[i].vy = 0
    /\ lastFpsTimeRef = 0 /\ frameCountRef = 0 /\ lastScrollTopRef = 0

(* ---------------------------------------------------------------------- *)
(* C24, as stated: in the mobile-aware variant the simulator is mounted   *)
(* (particles initialized, entity count reported, frame callback          *)
(* requested, listeners registered) only while the viewport width is      *)
(* greater than 768; on a viewport of width <= 768 it is never mounted,   *)
(* from the first render on.                                              *)
(* ---------------------------------------------------------------------- *)
C24_DesktopOnly ==
    win.w <= 768 =>
        /\ phase = "unmounted"
        /\ ~resizeListener /\ ~mouseListeners
        /\ rafPending = {}
        /\ hist.initCalls > 0 => hist.initW > 768

(* ---------------------------------------------------------------------- *)
(* C25: at most one frame callback is pending at any time, and the stored *)
(* frame id identifies the most recently requested callback, after any    *)
(* sequence of frames, events, teardowns and remounts.  (Handlers run to  *)
(* completion one at a time, so no frame is entered while another runs:   *)
(* every action of the model is one whole handler.)                       *)
(* ---------------------------------------------------------------------- *)
C25_SinglePendingFrame ==
    /\ Cardinality(rafPending) <= 1
    /\ rafPending \subseteq { frameIdRef }
    /\ phase # "unmounted" => frameIdRef = nextRafId - 1

\* a remounted view has its one callback pending after an earlier instance
\* had run a frame and was torn down
C25_Witness ==
    /\ phase = "mounted"
    /\ hist.initCalls >= 2
    /\ steps.frames >= 1
    /\ nextRafId >= 4
    /\ rafPending = { nextRafId - 1 }
    /\ frameIdRef = nextRafId - 1

(* ---------------------------------------------------------------------- *)
(* C26: the mouse-repulsion step never divides by zero: for every pointer *)
(* position and particle position, an active pointer exactly at a         *)
(* particle's position included, the velocity and position of every       *)
(* foreground particle are finite numbers after the frame.                *)
(* ---------------------------------------------------------------------- *)
C26_AlwaysFinite ==
    /\ \A i \in 1 .. Len(particles.list) : particles.list[i].nan = 0
    /\ lastFrame.ran =>
          \A i \in 1 .. Len(lastFrame.repulsion) : ~lastFrame.repulsion[i].nan

\* the check read two particles at a distance of at most 0.01 pixel
\* (one unit of 1/Scale)
WithinThreshold(e) ==
    /\ e.read[1].nan < 2 /\ e.read[2].nan < 2
    /\ Abs(e.read[2].x - e.read[1].x) <= 1
    /\ Abs(e.read[2].y - e.read[1].y) <= 1
    /\ DistSqOf(e.read) <= 1

\* the check changed nothing but the positions of its two particles
OnlyPositionsMoved(e) ==
    \A n \in 1..2 :
        e.wrote[n] = [ e.read[n] EXCEPT !.x = e.wrote[n].x,
                                        !.y = e.wrote[n].y ]

(* ---------------------------------------------------------------------- *)
(* C27: resolving a collision between two foreground particles moves them *)
(* by equal and opposite displacements, so the sum of their positions is  *)
(* unchanged, and never changes the velocity, origin or radius of either; *)
(* at a distance of at most 0.01 the resolution changes nothing.          *)
(* ---------------------------------------------------------------------- *)
C27_EqualAndOpposite ==
    lastFrame.ran =>
        \A k \in 1..Len(lastFrame.log) :
            LET e == lastFrame.log[k]
            IN e.op = "check" =>
                 /\ e.wrote[1].x - e.read[1].x = e.read[2].x - e.wrote[2].x
                 /\ e.wrote[1].y - e.read[1].y = e.read[2].y - e.wrote[2].y
                 /\ e.wrote[1].x + e.wrote[2].x = e.read[1].x + e.read[2].x
                 /\ e.wrote[1].y + e.wrote[2].y = e.read[1].y + e.read[2].y
                 /\ OnlyPositionsMoved(e)
                 /\ WithinThreshold(e) => e.wrote = e.read

\* one frame resolved a collision that moved both particles of a pair and
\* checked a pair of coincident particles, which it left alone
C27_Witness ==
    /\ lastFrame.ran
    /\ \E k \in 1..Len(lastFrame.log) :
          LET e == lastFrame.log[k]
          IN /\ e.op = "check"
             /\ e.wrote[1] # e.read[1] /\ e.wrote[2] # e.read[2]
             /\ e.read[1].vx # 0
    /\ \E k \in 1..Len(lastFrame.log) :
          LET e == lastFrame.log[k]
          IN /\ e.op = "check"
             /\ WithinThreshold(e)
             /\ e.read[1].size + e.read[2].size > 1
             /\ e.wrote = e.read

(* ---------------------------------------------------------------------- *)
(* C28: after every completed frame every background particle lies in     *)
(* 0 <= x <= canvas.width and 0 <= y <= canvas.height, the backing size   *)
(* the frame read, for any velocities, scroll force and any preceding     *)
(* frames and resizes.                                                    *)
(* ---------------------------------------------------------------------- *)
C28_BackgroundInsideCanvas ==
    [][ FrameRuns =>
          \A i \in 1..Len(bgParticles'.list) :
             LET q == bgParticles'.list[i]
             IN /\ 0 <= q.x /\ q.x <= canvas.width * Scale
                /\ 0 <= q.y /\ q.y <= canvas.height * Scale ]_vars

\* after a resize, a frame with a scroll force carried a background
\* particle over the upper edge and reset it to canvas.height
C28_Witness ==
    /\ lastFrame.ran
    /\ hist.initCalls >= 2
    /\ lastFrame.scrollForce # 0
    /\ canvas.height > 0
    /\ \E i \in 1..Len(bgParticles.list) :
          bgParticles.list[i].y = canvas.height * Scale

\* the step is a resize of the window
ResizeStep == \E v \in Viewports, seed \in RandSeeds : WindowResize(v, seed)

\* the lists were generated anew since the latest frame ran
ResizedSinceFrame ==
    /\ lastFrame.ran /\ lastFrame.sampled
    /\ particles.gen > lastFrame.gens[1]

(* ---------------------------------------------------------------------- *)
(* C29: a resize replaces only the particle lists and the canvas size:    *)
(* the pointer state, the stored previous scroll offset, the frame        *)
(* counter and the last-FPS timestamp are unchanged by it, so the first   *)
(* frame after a resize computes scrollDelta against the offset sampled   *)
(* by the last frame before the resize.                                   *)
(* ---------------------------------------------------------------------- *)
C29_ResizeKeepsCounters ==
    [][ /\ ResizeStep =>
             /\ mouse' = mouse
             /\ lastScrollTopRef' = lastScrollTopRef
             /\ frameCountRef' = frameCountRef
             /\ lastFpsTimeRef' = lastFpsTimeRef
             /\ lastTimeRef' = lastTimeRef
             /\ rafPending' = rafPending /\ frameIdRef' = frameIdRef
        /\ (FrameRuns /\ scrollRefOk /\ ResizedSinceFrame) =>
             lastFrame'.scrollDelta = scrollTop - lastFrame.currentScroll ]_vars

\* a frame sampled offset 100, the window was resized and the lists were
\* replaced, and the next frame computed scrollDelta = 0 against the stored
\* 100: its scroll force was 0, so the new particles got no vertical speed
C29_Witness ==
    /\ lastFrame.ran /\ lastFrame.sampled
    /\ Len(lastFrame.times) = 2
    /\ lastFrame.gens[1] = 2
    /\ lastFrame.currentScroll = 100 /\ lastScrollTopRef = 100
    /\ lastFrame.scrollDelta = 0 /\ lastFrame.sumDelta = 100
    /\ Len(particles.list) > 0
    /\ \A i \in 1..Len(particles.list) : particles.list[i].vy = 0

(* ---------------------------------------------------------------------- *)
(* C30: in a frame in which the scroll container reference is absent      *)
(* (canvas and context present) scroll sampling is skipped: scrollDelta   *)
(* and scrollProgress are 0, so the scroll force is 0 and the colour is   *)
(* the blue stop (66,133,244); the stored previous offset is left         *)
(* unchanged, and the rest of the frame (physics, rendering, re-arming)   *)
(* still runs.                                                            *)
(* ---------------------------------------------------------------------- *)
C30_NoContainerNoSampling ==
    [][ (FrameRuns /\ ~scrollRefOk) =>
          /\ lastFrame'.ran /\ ~lastFrame'.sampled
          /\ lastFrame'.scrollDelta = 0
          /\ ~lastFrame'.progressNaN /\ lastFrame'.progressNum = 0
          /\ lastFrame'.scrollForce = 0
          /\ lastFrame'.currentColor = << 66, 133, 244 >>
          /\ lastScrollTopRef' = lastScrollTopRef
          /\ lastFrame'.lens = << Len(particles.list), Len(bgParticles.list) >>
          /\ Len(SelectSeq(lastFrame'.log, LAMBDA e : e.op = "integrate"))
               = Len(particles.list)
          /\ lastFrame'.armed
          /\ frameIdRef' # frameIdRef /\ rafPending' = { frameIdRef' } ]_vars

\* the page was scrolled to 250 in a window of height 100, where a rendered
\* container would give progress 2 and another colour; the frame of a view
\* without container integrated its particles and re-armed
C30_Witness ==
    /\ lastFrame.ran /\ ~lastFrame.sampled
    /\ scrollTop = 250 /\ win.h = 100
    /\ lastScrollTopRef = 0
    /\ lastFrame.currentColor = << 66, 133, 244 >>
    /\ Len(Integrations) = 2
    /\ lastFrame.armed /\ rafPending = { frameIdRef }

=============================================================================
